---- MODULE Spec2Model ----
(***************************************************************************)
(* Model of the event-processing core of bizstock-alert:                   *)
(*   clusteringService.ts      clusterEvents, applyCooldown, shouldDeliver *)
(*   personalizationService.ts relevance score, personal impact, read-set  *)
(*   store/eventsSlice.ts      readEventIds reducers                       *)
(*                                                                         *)
(* Strings that the code concatenates, sorts or hashes (event ids, ticker  *)
(* codes, titles, cluster ids) are sequences of UTF-16 code units.         *)
(* Enumerations are ASCII names: impact "strong" = 強, "medium" = 中,      *)
(* "weak" = 弱; event types "upward" = 上方修正, "order" = 受注,           *)
(* "other" = その他, ...                                                   *)
(* publishedAt is an instant in minutes after a base instant; getTime      *)
(* turns it into milliseconds as Date.getTime does.                        *)
(***************************************************************************)
EXTENDS Integers, Sequences, FiniteSets, TLC

VARIABLES
    batch,          \* NormalizedEvent[] handed to clusterEvents
    config,         \* ClusteringConfig of the run
    clusters,       \* result of clusterEvents
    cooled,         \* result of applyCooldown
    cooldownArg,    \* cooldownMinutes argument of the last applyCooldown
    profile,        \* UserProfile (watchlist, positions, eventTypeWeights, readEvents)
    personalized,   \* result of personalizeEvents
    unread,         \* result of filterUnreadEvents
    ranked,         \* result of rankEvents / rankEventsWithTierPriority
    readEventIds,   \* EventsState.readEventIds of the events slice
    pc,             \* last operation that ran
    rankingConfig,  \* RankingConfig argument of the ranking calls
    referenceDate,  \* referenceTime argument of the ranking calls
    recencyCall,    \* last calculateRecencyScore call: argument and result
    similarityCall, \* last calculateSimilarity call: arguments and result
    urlCall,        \* last normalizeUrl call: argument, result, result of a second pass
    rawEvents,      \* RawEvent[] handed to normalizeEvents
    normalized,     \* result of normalizeEvents
    sentNotifications, \* the idempotency cache of notificationService
    scheduled,      \* notifications handed to Notifications.scheduleNotificationAsync
    calls           \* in-flight notificationService calls and their positions

\* the clustering, personalization and read-tracking state
pipelineVars == <<batch, config, clusters, cooled, cooldownArg, profile,
                  personalized, unread, ranked, readEventIds>>

\* the state of ranker, similarity, normalizer and notification runs
serviceVars == <<rankingConfig, referenceDate, recencyCall, similarityCall, urlCall,
                 rawEvents, normalized, sentNotifications, scheduled, calls>>

vars == <<pipelineVars, pc, serviceVars>>

\* no ranking, similarity, normalizer or notification call has been made
ServicesIdle ==
    /\ rankingConfig = <<>>
    /\ referenceDate = 0
    /\ recencyCall = <<>>
    /\ similarityCall = <<>>
    /\ urlCall = <<>>
    /\ rawEvents = <<>>
    /\ normalized = <<>>
    /\ sentNotifications = {}
    /\ scheduled = <<>>
    /\ calls = <<>>

----------------------------------------------------------------------------
(* Bounds of the model *)

MaxEvents == 3

----------------------------------------------------------------------------
(* Generic sequence helpers *)

Range(s) == {s[i] : i \in 1..Len(s)}

Contains(s, x) == \E i \in 1..Len(s) : s[i] = x

RECURSIVE Dedup(_)
\* insertion-ordered `new Set(...)` turned back into an array
Dedup(s) ==
    IF s = <<>> THEN <<>>
    ELSE LET r == Dedup(SubSeq(s, 1, Len(s) - 1))
             x == s[Len(s)]
         IN IF Contains(r, x) THEN r ELSE Append(r, x)

RECURSIVE Flatten(_)
Flatten(ss) == IF ss = <<>> THEN <<>> ELSE Head(ss) \o Flatten(Tail(ss))

Min2(a, b) == IF a < b THEN a ELSE b

Abs(x) == IF x < 0 THEN 0 - x ELSE x

\* String comparison by UTF-16 code units, as Array.prototype.sort() without comparator
RECURSIVE LexLess(_, _)
LexLess(a, b) ==
    IF b = <<>> THEN FALSE
    ELSE IF a = <<>> THEN TRUE
    ELSE IF Head(a) # Head(b) THEN Head(a) < Head(b)
    ELSE LexLess(Tail(a), Tail(b))

RECURSIVE InsertId(_, _)
InsertId(sorted, x) ==
    IF sorted = <<>> THEN <<x>>
    ELSE IF LexLess(x, Head(sorted)) THEN <<x>> \o sorted
    ELSE <<Head(sorted)>> \o InsertId(Tail(sorted), x)

RECURSIVE SortIds(_)
SortIds(s) == IF s = <<>> THEN <<>> ELSE InsertId(SortIds(SubSeq(s, 1, Len(s) - 1)), s[Len(s)])

RECURSIVE JoinBar(_)
\* ids.join('|')
JoinBar(s) ==
    IF s = <<>> THEN <<>>
    ELSE IF Len(s) = 1 THEN s[1]
    ELSE s[1] \o <<124>> \o JoinBar(Tail(s))

RECURSIVE ToDigits(_, _)
\* Number.prototype.toString(base) of a natural number, as code units
ToDigits(n, base) ==
    LET d == n % base
        c == IF d < 10 THEN 48 + d ELSE 97 + (d - 10)
    IN IF n < base THEN <<c>> ELSE Append(ToDigits(n \div base, base), c)

----------------------------------------------------------------------------
(* Time *)

\* new Date(publishedAt).getTime()
getTime(publishedAt) == publishedAt * 60 * 1000

----------------------------------------------------------------------------
(* calculateSimilarity *)

WhitespaceUnits == {9, 10, 11, 12, 13, 32, 160, 12288}

\* the characters of /[、。！？｜]/
PunctuationUnits == {12289, 12290, 65281, 65311, 65372}

toLowerCase(c) == IF c \in 65..90 THEN c + 32 ELSE c

normalizeText(text) ==
    LET lower == [i \in 1..Len(text) |-> toLowerCase(text[i])]
        Keep(c) == c \notin WhitespaceUnits /\ c \notin PunctuationUnits
    IN SelectSeq(lower, Keep)

getBigrams(text) == {<<text[i], text[i + 1]>> : i \in 1..(Len(text) - 1)}

\* divides without the union.size > 0 guard: 0/0 (NaN) for two empty bigram sets
calculateSimilarity_NoGuard(text1, text2) ==
    LET bigrams1 == getBigrams(normalizeText(text1))
        bigrams2 == getBigrams(normalizeText(text2))
    IN [num |-> Cardinality(bigrams1 \cap bigrams2), den |-> Cardinality(bigrams1 \cup bigrams2)]

\* The similarity is the fraction num/den; the value 0 is 0/1
calculateSimilarity(text1, text2) ==
    LET bigrams1 == getBigrams(normalizeText(text1))
        bigrams2 == getBigrams(normalizeText(text2))
        intersection == bigrams1 \cap bigrams2
        union == bigrams1 \cup bigrams2
    IN IF Cardinality(union) > 0
         THEN [num |-> Cardinality(intersection), den |-> Cardinality(union)]
         ELSE [num |-> 0, den |-> 1]

\* similarity >= threshold, the threshold being thr.num / thr.den
SimilarityAtLeast(sim, thr) == sim.num * thr.den >= thr.num * sim.den

----------------------------------------------------------------------------
(* createCluster and its helpers *)

tierOrder(t) == CASE t = "A" -> 0 [] t = "B" -> 1 [] t = "C" -> 2

\* the comparator without the tier: newest first only
TierTimeCompare_TimeOnly(a, b) == getTime(b.publishedAt) - getTime(a.publishedAt)

\* the comparator of createCluster: negative when a sorts before b
TierTimeCompare(a, b) ==
    LET tierDiff == tierOrder(a.tier) - tierOrder(b.tier)
    IN IF tierDiff # 0 THEN tierDiff
       ELSE getTime(b.publishedAt) - getTime(a.publishedAt)

RECURSIVE InsertTierTime(_, _)
InsertTierTime(sorted, e) ==
    IF sorted = <<>> THEN <<e>>
    ELSE IF TierTimeCompare(e, Head(sorted)) < 0 THEN <<e>> \o sorted
    ELSE <<Head(sorted)>> \o InsertTierTime(Tail(sorted), e)

RECURSIVE SortTierTime(_)
\* stable sort by tier (A > B > C) then by time (newest first)
SortTierTime(s) ==
    IF s = <<>> THEN <<>>
    ELSE InsertTierTime(SortTierTime(SubSeq(s, 1, Len(s) - 1)), s[Len(s)])

RECURSIVE InsertNewestFirst(_, _)
InsertNewestFirst(sorted, e) ==
    IF sorted = <<>> THEN <<e>>
    ELSE IF getTime(Head(sorted).publishedAt) - getTime(e.publishedAt) < 0
         THEN <<e>> \o sorted
    ELSE <<Head(sorted)>> \o InsertNewestFirst(Tail(sorted), e)

RECURSIVE SortNewestFirst(_)
\* stable sort by published time (newest first), of events or of clusters
SortNewestFirst(s) ==
    IF s = <<>> THEN <<>>
    ELSE InsertNewestFirst(SortNewestFirst(SubSeq(s, 1, Len(s) - 1)), s[Len(s)])

CountTier(events, t) == Cardinality({i \in 1..Len(events) : events[i].tier = t})

\* determineImpact without the "two tier-B sources" rule
determineImpact_NoDoubleB(events) ==
    IF CountTier(events, "A") > 0 THEN "strong"
    ELSE IF CountTier(events, "B") >= 1 THEN "medium"
    ELSE "weak"

determineImpact(events) ==
    LET tierCounts == [A |-> CountTier(events, "A"),
                       B |-> CountTier(events, "B"),
                       C |-> CountTier(events, "C")]
    IN IF tierCounts.A > 0 \/ tierCounts.B >= 2 THEN "strong"
       ELSE IF tierCounts.B = 1 THEN "medium"
       ELSE "weak"

\* One step of simpleHash on the 32-bit hash kept as two 16-bit halves:
\* hash = (hash << 5) - hash + char; hash = hash & hash
HashStep(h, char) ==
    LET shlLo == (h.lo * 32) % 65536
        shlHi == (h.hi * 32 + (h.lo * 32) \div 65536) % 65536
        lo    == shlLo - h.lo + char
        carry == IF lo < 0 THEN -1 ELSE lo \div 65536
        hi    == shlHi - h.hi + carry
    IN [hi |-> (hi + 65536) % 65536, lo |-> (lo + 65536) % 65536]

RECURSIVE HashLoop(_, _)
HashLoop(h, str) == IF str = <<>> THEN h ELSE HashLoop(HashStep(h, Head(str)), Tail(str))

\* Math.abs of the signed 32-bit value, again as two 16-bit halves (hi may be 32768)
HashAbs(h) ==
    IF h.hi < 32768 THEN h
    ELSE IF h.lo = 0 THEN [hi |-> 65536 - h.hi, lo |-> 0]
    ELSE [hi |-> 65535 - h.hi, lo |-> 65536 - h.lo]

RECURSIVE HashToString36(_)
HashToString36(h) ==
    LET qHi == h.hi \div 36
        rem == (h.hi % 36) * 65536 + h.lo
        qLo == rem \div 36
        d   == rem % 36
        c   == IF d < 10 THEN 48 + d ELSE 97 + (d - 10)
    IN IF qHi = 0 /\ qLo = 0 THEN <<c>>
       ELSE Append(HashToString36([hi |-> qHi, lo |-> qLo]), c)

simpleHash(str) == HashToString36(HashAbs(HashLoop([hi |-> 0, lo |-> 0], str)))

Unknown == <<117, 110, 107, 110, 111, 119, 110>>  \* 'unknown'

\* generateClusterId hashing the member ids in member order, without .sort()
generateClusterId_Unsorted(events) ==
    LET primaryEvent == events[1]
        ticker == IF Len(primaryEvent.tickerCodes) > 0 /\ primaryEvent.tickerCodes[1] # <<>>
                  THEN primaryEvent.tickerCodes[1] ELSE Unknown
    IN ticker \o <<95>> \o ToDigits(getTime(primaryEvent.publishedAt), 10) \o <<95>>
       \o simpleHash(JoinBar([i \in 1..Len(events) |-> events[i].id]))

\* `${ticker}_${timestamp}_${hash}`; events is already sorted by createCluster
generateClusterId(events) ==
    LET primaryEvent == events[1]
        timestamp == getTime(primaryEvent.publishedAt)
        eventIds == JoinBar(SortIds([i \in 1..Len(events) |-> events[i].id]))
        hash == simpleHash(eventIds)
        ticker == IF Len(primaryEvent.tickerCodes) > 0 /\ primaryEvent.tickerCodes[1] # <<>>
                  THEN primaryEvent.tickerCodes[1] ELSE Unknown
    IN ticker \o <<95>> \o ToDigits(timestamp, 10) \o <<95>> \o hash

createCluster(events) ==
    LET sortedEvents == SortTierTime(events)
        primaryEvent == sortedEvents[1]
        allTickers == Dedup(Flatten([i \in 1..Len(sortedEvents) |-> sortedEvents[i].tickerCodes]))
        sourceNames == Dedup([i \in 1..Len(sortedEvents) |-> sortedEvents[i].sourceName])
    IN [clusterId |-> generateClusterId(sortedEvents),
        events |-> sortedEvents,
        primaryTicker |-> IF Len(primaryEvent.tickerCodes) > 0
                          THEN primaryEvent.tickerCodes[1] ELSE <<>>,
        allTickers |-> allTickers,
        title |-> primaryEvent.title,
        impact |-> determineImpact(sortedEvents),
        eventType |-> primaryEvent.eventType,
        publishedAt |-> primaryEvent.publishedAt,
        sources |-> SubSeq(sourceNames, 1, Min2(2, Len(sourceNames)))]

----------------------------------------------------------------------------
(* clusterEvents *)

\* findSimilarEvents that does not skip the events already assigned to a cluster
findSimilarEvents_IgnoreProcessed(targetEvent, allEvents, cfg, processed) ==
    LET targetTime == getTime(targetEvent.publishedAt)
        windowMs == cfg.timeWindowMinutes * 60 * 1000
        Similar(event) ==
            /\ event.id # targetEvent.id
            /\ ~(Abs(targetTime - getTime(event.publishedAt)) > windowMs)
            /\ \E i \in 1..Len(targetEvent.tickerCodes) :
                   Contains(event.tickerCodes, targetEvent.tickerCodes[i])
            /\ SimilarityAtLeast(calculateSimilarity(targetEvent.title, event.title),
                                 cfg.similarityThreshold)
    IN SelectSeq(allEvents, Similar)

\* findSimilarEvents without the headline similarity test
findSimilarEvents_AnyTitle(targetEvent, allEvents, cfg, processed) ==
    LET targetTime == getTime(targetEvent.publishedAt)
        windowMs == cfg.timeWindowMinutes * 60 * 1000
        Similar(event) ==
            /\ ~(event.id \in processed \/ event.id = targetEvent.id)
            /\ ~(Abs(targetTime - getTime(event.publishedAt)) > windowMs)
            /\ \E i \in 1..Len(targetEvent.tickerCodes) :
                   Contains(event.tickerCodes, targetEvent.tickerCodes[i])
    IN SelectSeq(allEvents, Similar)

\* findSimilarEvents without the time window test
findSimilarEvents_AnyTime(targetEvent, allEvents, cfg, processed) ==
    LET Similar(event) ==
            /\ ~(event.id \in processed \/ event.id = targetEvent.id)
            /\ \E i \in 1..Len(targetEvent.tickerCodes) :
                   Contains(event.tickerCodes, targetEvent.tickerCodes[i])
            /\ SimilarityAtLeast(calculateSimilarity(targetEvent.title, event.title),
                                 cfg.similarityThreshold)
    IN SelectSeq(allEvents, Similar)

findSimilarEvents(targetEvent, allEvents, cfg, processed) ==
    LET targetTime == getTime(targetEvent.publishedAt)
        windowMs == cfg.timeWindowMinutes * 60 * 1000
        Similar(event) ==
            /\ ~(event.id \in processed \/ event.id = targetEvent.id)
            /\ ~(Abs(targetTime - getTime(event.publishedAt)) > windowMs)
            /\ \E i \in 1..Len(targetEvent.tickerCodes) :
                   Contains(event.tickerCodes, targetEvent.tickerCodes[i])
            /\ SimilarityAtLeast(calculateSimilarity(targetEvent.title, event.title),
                                 cfg.similarityThreshold)
    IN SelectSeq(allEvents, Similar)

RECURSIVE clusterLoop(_, _, _, _, _)
\* the for loop of clusterEvents from position i on
clusterLoop(sortedEvents, i, cfg, result, processed) ==
    IF i > Len(sortedEvents) THEN result
    ELSE LET event == sortedEvents[i]
         IN IF event.id \in processed
            THEN clusterLoop(sortedEvents, i + 1, cfg, result, processed)
            ELSE LET similarEvents == findSimilarEvents(event, sortedEvents, cfg, processed)
                     cluster == createCluster(<<event>> \o similarEvents)
                 IN clusterLoop(sortedEvents, i + 1, cfg, Append(result, cluster),
                                processed \cup {event.id}
                                          \cup {similarEvents[k].id : k \in 1..Len(similarEvents)})

\* anchors on the oldest event first instead of the newest
clusterEvents_OldestFirst(events, cfg) ==
    IF Len(events) = 0 THEN <<>>
    ELSE LET newestFirst == SortNewestFirst(events)
             oldestFirst == [i \in 1..Len(events) |-> newestFirst[Len(events) + 1 - i]]
         IN clusterLoop(oldestFirst, 1, cfg, <<>>, {})

\* clusterEvents without the newest-first sort: anchors in input order
clusterEvents_InputOrder(events, cfg) ==
    IF Len(events) = 0 THEN <<>>
    ELSE clusterLoop(events, 1, cfg, <<>>, {})

clusterEvents(events, cfg) ==
    IF Len(events) = 0 THEN <<>>
    ELSE clusterLoop(SortNewestFirst(events), 1, cfg, <<>>, {})

----------------------------------------------------------------------------
(* shouldDeliver, applyCooldown *)

\* shouldDeliver that lets a single tier-B source through
shouldDeliver_AnyB(cluster) ==
    CountTier(cluster.events, "A") > 0 \/ CountTier(cluster.events, "B") >= 1

shouldDeliver(cluster) ==
    LET tierCounts == [A |-> CountTier(cluster.events, "A"),
                       B |-> CountTier(cluster.events, "B")]
    IN tierCounts.A > 0 \/ tierCounts.B >= 2

\* the filter callback without the event type comparison
isMergeable_IgnoreType(cluster, c, cooldownMs, processed) ==
    /\ ~(c.clusterId \in processed \/ c.clusterId = cluster.clusterId)
    /\ Abs(getTime(cluster.publishedAt) - getTime(c.publishedAt)) <= cooldownMs
    /\ c.primaryTicker = cluster.primaryTicker

\* the callback without the test for clusters that are already merged
isMergeable_AlreadyMerged(cluster, c, cooldownMs, processed) ==
    /\ c.clusterId # cluster.clusterId
    /\ Abs(getTime(cluster.publishedAt) - getTime(c.publishedAt)) <= cooldownMs
    /\ c.primaryTicker = cluster.primaryTicker
    /\ c.eventType = cluster.eventType

\* the callback of sorted.filter in applyCooldown: c can be merged into cluster
isMergeable(cluster, c, cooldownMs, processed) ==
    /\ ~(c.clusterId \in processed \/ c.clusterId = cluster.clusterId)
    /\ Abs(getTime(cluster.publishedAt) - getTime(c.publishedAt)) <= cooldownMs
    /\ c.primaryTicker = cluster.primaryTicker
    /\ c.eventType = cluster.eventType

RECURSIVE cooldownLoop(_, _, _, _, _)
\* the for loop of applyCooldown from position i on
cooldownLoop(sorted, i, cooldownMs, result, processed) ==
    IF i > Len(sorted) THEN result
    ELSE LET cluster == sorted[i]
         IN IF cluster.clusterId \in processed
            THEN cooldownLoop(sorted, i + 1, cooldownMs, result, processed)
            ELSE LET Mergeable(c) == isMergeable(cluster, c, cooldownMs, processed)
                     mergeables == SelectSeq(sorted, Mergeable)
                 IN IF Len(mergeables) > 0
                    THEN LET allEvents == cluster.events \o
                                 Flatten([k \in 1..Len(mergeables) |-> mergeables[k].events])
                         IN cooldownLoop(sorted, i + 1, cooldownMs,
                                Append(result, createCluster(allEvents)),
                                processed \cup {cluster.clusterId}
                                    \cup {mergeables[k].clusterId : k \in 1..Len(mergeables)})
                    ELSE cooldownLoop(sorted, i + 1, cooldownMs, Append(result, cluster),
                                      processed \cup {cluster.clusterId})

\* the `clusters` argument as a call of applyCooldown leaves it: the function
\* sorts a copy ([...clusters]) and createCluster sorts the new array
\* allEvents, so neither the array nor a cluster's events array is written
applyCooldownArgument(cs, cooldownMinutes) == cs

applyCooldown(cs, cooldownMinutes) ==
    IF Len(cs) = 0 THEN <<>>
    ELSE cooldownLoop(SortNewestFirst(cs), 1, cooldownMinutes * 60 * 1000, <<>>, {})

----------------------------------------------------------------------------
(* personalizationService: weights are in tenths (15 = 1.5) *)

EventTypes == {"upward", "capital", "earnings", "guidance", "partnership",
               "order", "newProduct", "incident", "regulation", "other"}

DEFAULT_EVENT_TYPE_WEIGHTS ==
    [t \in EventTypes |->
        CASE t = "upward" -> 15
          [] t = "capital" -> 14
          [] t = "earnings" -> 13
          [] t = "guidance" -> 12
          [] t = "partnership" -> 11
          [] t = "order" -> 10
          [] t = "newProduct" -> 9
          [] t = "incident" -> 14
          [] t = "regulation" -> 12
          [] t = "other" -> 5]

IMPACT_SCORE(impact) ==
    CASE impact = "strong" -> 100 [] impact = "medium" -> 60 [] impact = "weak" -> 30

\* eventTypeWeights[event.eventType] || DEFAULT_EVENT_TYPE_WEIGHTS[event.eventType]
\* (profile.eventTypeWeights is a function on the overridden types; 0 is falsy)
ResolveTypeWeight(event, prof) ==
    IF event.eventType \in DOMAIN prof.eventTypeWeights
       /\ prof.eventTypeWeights[event.eventType] # 0
    THEN prof.eventTypeWeights[event.eventType]
    ELSE DEFAULT_EVENT_TYPE_WEIGHTS[event.eventType]

RECURSIVE SumShares(_, _)
\* reduce((sum, ticker) => sum + (positions[ticker] || 0), 0)
SumShares(tickers, shares) ==
    IF tickers = <<>> THEN 0
    ELSE (IF Head(tickers) \in DOMAIN shares THEN shares[Head(tickers)] ELSE 0)
         + SumShares(Tail(tickers), shares)

RECURSIVE SumAll(_)
\* Object.values(positions).reduce((sum, shares) => sum + shares, 0)
SumAll(shares) ==
    IF DOMAIN shares = {} THEN 0
    ELSE LET k == CHOOSE x \in DOMAIN shares : TRUE
         IN shares[k] + SumAll([y \in DOMAIN shares \ {k} |-> shares[y]])

\* The score is the exact fraction num/den before clamping; Math.round is
\* floor(x + 1/2).  reason lists the contributions pushed to `reasons`.
calculateRelevanceScore(event, prof) ==
    LET InWatchlist(ticker) == Contains(prof.watchlist, ticker)
        matchedTickers == SelectSeq(event.allTickers, InWatchlist)
        totalShares == IF prof.hasPositions THEN SumAll(prof.positions) ELSE 0
        matchedShares == IF prof.hasPositions THEN SumShares(matchedTickers, prof.positions) ELSE 0
        usePos == prof.hasPositions /\ totalShares > 0
        den == IF usePos THEN 10 * totalShares ELSE 10
        posNum == IF usePos THEN 20 * matchedShares * 10 ELSE 0        \* positionWeight * 20
        typeWeight == ResolveTypeWeight(event, prof)
        typeNum == (typeWeight - 10) * 15 * (den \div 10)                \* (typeWeight - 1.0) * 15
        impactNum == IMPACT_SCORE(event.impact) * 2 * (den \div 10)      \* IMPACT_SCORE * 0.2
        multi == Len(event.sources) >= 2
        multiNum == IF multi THEN 10 * den ELSE 0
        num == 30 * den + posNum + typeNum + impactNum + multiNum
        clamped == IF num < 0 THEN 0 ELSE IF num > 100 * den THEN 100 * den ELSE num
        reasons == <<"watchlist">>
                   \o (IF usePos /\ posNum > 5 * den THEN <<"position">> ELSE <<>>)
                   \o (IF Abs(typeNum) > 2 * den THEN <<"eventType">> ELSE <<>>)
                   \o <<"impact">>
                   \o (IF multi THEN <<"multiSource">> ELSE <<>>)
    IN IF Len(matchedTickers) = 0
       THEN [score |-> 0, reason |-> <<"noMatch">>]
       ELSE [score |-> (2 * clamped + den) \div (2 * den), reason |-> reasons]

\* determinePersonalImpact that sends low-relevance events down to weak
determinePersonalImpact_Downgrade(event, prof, relevanceScore) ==
    IF event.impact = "strong" THEN "strong"
    ELSE IF relevanceScore < 30 THEN "weak"
    ELSE IF event.impact = "weak" /\ relevanceScore >= 70 THEN "medium"
    ELSE IF event.impact = "medium" /\ relevanceScore >= 85 THEN "strong"
    ELSE IF ResolveTypeWeight(event, prof) >= 14 /\ event.impact = "medium" THEN "strong"
    ELSE event.impact

\* determinePersonalImpact with strict thresholds (> instead of >=)
determinePersonalImpact_Strict(event, prof, relevanceScore) ==
    IF event.impact = "strong" THEN "strong"
    ELSE IF event.impact = "weak" /\ relevanceScore > 70 THEN "medium"
    ELSE IF event.impact = "medium" /\ relevanceScore > 85 THEN "strong"
    ELSE IF ResolveTypeWeight(event, prof) > 14 /\ event.impact = "medium" THEN "strong"
    ELSE event.impact

determinePersonalImpact(event, prof, relevanceScore) ==
    LET baseImpact == event.impact
        typeWeight == ResolveTypeWeight(event, prof)
    IN IF baseImpact = "strong" THEN "strong"
       ELSE IF baseImpact = "weak" /\ relevanceScore >= 70 THEN "medium"
       ELSE IF baseImpact = "medium" /\ relevanceScore >= 85 THEN "strong"
       ELSE IF typeWeight >= 14 /\ baseImpact = "medium" THEN "strong"
       ELSE baseImpact

personalizeEvent(event, prof) ==
    LET r == calculateRelevanceScore(event, prof)
        personalImpact == determinePersonalImpact(event, prof, r.score)
    IN [relevanceScore |-> r.score,
        personalImpact |-> personalImpact,
        scoreReason |-> r.reason] @@ event

\* personalizeEvents whose filter keeps score 0 (>= instead of >)
personalizeEvents_KeepZero(events, prof) ==
    LET mapped == [i \in 1..Len(events) |-> personalizeEvent(events[i], prof)]
        Relevant(e) == e.relevanceScore >= 0
    IN SelectSeq(mapped, Relevant)

personalizeEvents(events, prof) ==
    LET mapped == [i \in 1..Len(events) |-> personalizeEvent(events[i], prof)]
        Relevant(e) == e.relevanceScore > 0
    IN SelectSeq(mapped, Relevant)

\* filterUnreadEvents that looks up the cluster id only
filterUnreadEvents_ClusterOnly(events, prof) ==
    LET Unread(event) == event.clusterId \notin prof.readEvents
    IN SelectSeq(events, Unread)

filterUnreadEvents(events, prof) ==
    LET Unread(event) ==
            /\ event.clusterId \notin prof.readEvents
            /\ ~\E i \in 1..Len(event.events) : event.events[i].id \in prof.readEvents
    IN SelectSeq(events, Unread)

\* markEventsAsRead that replaces the read-set by the new ids
markEventsAsRead_Replace(prof, eventIds) ==
    [prof EXCEPT !.readEvents = Range(eventIds)]

\* returns the profile after the call (the code mutates profile.readEvents in place)
markEventsAsRead(prof, eventIds) ==
    [prof EXCEPT !.readEvents = @ \cup Range(eventIds)]

createUserProfile(watchlist) ==
    [watchlist |-> watchlist, hasPositions |-> FALSE, positions |-> <<>>,
     eventTypeWeights |-> <<>>, readEvents |-> {}]

----------------------------------------------------------------------------
(* rankingService: weights in tenths, boost in hundredths, scores times 1000 *)

DEFAULT_RANKING_CONFIG ==
    [relevanceWeight |-> 5, recencyWeight |-> 3, impactWeight |-> 2, multiSourceBoost |-> 115]

MORNING_DIGEST_RANKING ==
    [relevanceWeight |-> 6, recencyWeight |-> 2, impactWeight |-> 2, multiSourceBoost |-> 115]

IMPACT_FIRST_RANKING ==
    [relevanceWeight |-> 3, recencyWeight |-> 2, impactWeight |-> 5, multiSourceBoost |-> 130]

LIVE_FEED_RANKING ==
    [relevanceWeight |-> 3, recencyWeight |-> 5, impactWeight |-> 2, multiSourceBoost |-> 115]

IMPACT_RANKING_SCORE(impact) ==
    CASE impact = "strong" -> 100 [] impact = "medium" -> 60 [] impact = "weak" -> 30

\* the decay of the doc comment (80 at 1h, 60 at 6h) instead of the returned values
calculateRecencyScore_Decay(publishedAt, referenceTime) ==
    LET ageMinutes == (getTime(referenceTime) - getTime(publishedAt)) \div (60 * 1000)
    IN IF ageMinutes < 0 THEN 100
       ELSE IF ageMinutes < 60 * 1 THEN 100
       ELSE IF ageMinutes < 60 * 6 THEN 80
       ELSE IF ageMinutes < 60 * 24 THEN 60
       ELSE IF ageMinutes < 60 * 48 THEN 40
       ELSE IF ageMinutes < 60 * 168 THEN 20
       ELSE 0

\* ageHours is compared in minutes: ageHours < h  iff  ageMinutes < 60 * h
calculateRecencyScore(publishedAt, referenceTime) ==
    LET ageMinutes == (getTime(referenceTime) - getTime(publishedAt)) \div (60 * 1000)
    IN IF ageMinutes < 0 THEN 100
       ELSE IF ageMinutes < 60 * 1 THEN 100
       ELSE IF ageMinutes < 60 * 6 THEN 90
       ELSE IF ageMinutes < 60 * 24 THEN 70
       ELSE IF ageMinutes < 60 * 48 THEN 40
       ELSE IF ageMinutes < 60 * 168 THEN 20
       ELSE 0

calculateRankingScore(event, rcfg, referenceTime) ==
    LET relevanceScore == event.relevanceScore
        recencyScore == calculateRecencyScore(event.publishedAt, referenceTime)
        impactScore == IMPACT_RANKING_SCORE(event.personalImpact)
        weighted == relevanceScore * rcfg.relevanceWeight
                    + recencyScore * rcfg.recencyWeight
                    + impactScore * rcfg.impactWeight
        compositeScore == IF Len(event.sources) >= 2
                          THEN weighted * rcfg.multiSourceBoost
                          ELSE weighted * 100
    IN IF compositeScore < 0 THEN 0
       ELSE IF compositeScore > 100 * 1000 THEN 100 * 1000
       ELSE compositeScore

RECURSIVE InsertByScore_TiesFirst(_, _)
\* inserts an item before the items of equal score
InsertByScore_TiesFirst(sorted, item) ==
    IF sorted = <<>> THEN <<item>>
    ELSE IF Head(sorted).rankingScore - item.rankingScore <= 0 THEN <<item>> \o sorted
    ELSE <<Head(sorted)>> \o InsertByScore_TiesFirst(Tail(sorted), item)

RECURSIVE InsertByScore(_, _)
InsertByScore(sorted, item) ==
    IF sorted = <<>> THEN <<item>>
    ELSE IF Head(sorted).rankingScore - item.rankingScore < 0 THEN <<item>> \o sorted
    ELSE <<Head(sorted)>> \o InsertByScore(Tail(sorted), item)

RECURSIVE SortByScore(_)
\* stable sort by score descending
SortByScore(s) ==
    IF s = <<>> THEN <<>>
    ELSE InsertByScore(SortByScore(SubSeq(s, 1, Len(s) - 1)), s[Len(s)])

\* returns the scored events in input order, without the sort
rankEvents_Unsorted(events, rcfg, referenceTime) ==
    LET scoredEvents == [i \in 1..Len(events) |->
                            [event |-> events[i],
                             rankingScore |-> calculateRankingScore(events[i], rcfg, referenceTime)]]
    IN [i \in 1..Len(scoredEvents) |-> scoredEvents[i].event]

rankEvents(events, rcfg, referenceTime) ==
    LET scoredEvents == [i \in 1..Len(events) |->
                            [event |-> events[i],
                             rankingScore |-> calculateRankingScore(events[i], rcfg, referenceTime)]]
        sortedScored == SortByScore(scoredEvents)
    IN [i \in 1..Len(sortedScored) |-> sortedScored[i].event]

IsBaseStrong(e) == e.impact = "strong"

IsNotBaseStrong(e) == e.impact # "strong"

IsPersonalStrong(e) == e.personalImpact = "strong"

IsNotPersonalStrong(e) == e.personalImpact # "strong"

\* separates by the personal impact instead of the base impact
rankEventsWithTierPriority_Personal(events, rcfg, referenceTime) ==
    LET tierA == SelectSeq(events, IsPersonalStrong)
        tierBC == SelectSeq(events, IsNotPersonalStrong)
        rankedA == rankEvents(tierA, rcfg, referenceTime)
        rankedBC == rankEvents(tierBC, rcfg, referenceTime)
    IN rankedA \o rankedBC

rankEventsWithTierPriority(events, rcfg, referenceTime) ==
    LET tierA == SelectSeq(events, IsBaseStrong)
        tierBC == SelectSeq(events, IsNotBaseStrong)
        rankedA == rankEvents(tierA, rcfg, referenceTime)
        rankedBC == rankEvents(tierBC, rcfg, referenceTime)
    IN rankedA \o rankedBC

----------------------------------------------------------------------------
(* eventsSlice reducers on EventsState.readEventIds *)

markEventRead(readIds, id) == readIds \cup {id}

markEventsRead(readIds, ids) == readIds \cup Range(ids)

clearReadEvents(readIds) == {}

----------------------------------------------------------------------------
(* Inputs of the clustering runs *)

T7203 == <<55, 50, 48, 51>>     \* '7203'
T6758 == <<54, 55, 53, 56>>     \* '6758'

TitleToyota == <<97, 98, 99, 100>>      \* 'abcd'
TitleSony   == <<119, 120, 121, 122>>   \* 'wxyz', no bigram in common with 'abcd'

Tiers == {"A", "B", "C"}

Times == {0, 20, 40}

SourceOfTier(t) == CASE t = "A" -> "EDINET" [] t = "B" -> "PR TIMES" [] t = "C" -> "NEWS"

\* events of one ticker and one category, of every tier, at every time, with both titles
BasePool ==
    [tier : Tiers, publishedAt : Times, title : {TitleToyota, TitleSony},
     tickerCodes : {<<T7203>>}, eventType : {"upward"}]

\* events of another category or with another first ticker
ThemePool ==
    [tier : {"B"}, publishedAt : {20}, title : {TitleSony},
     tickerCodes : {<<T7203>>, <<T6758, T7203>>}, eventType : {"upward", "order"}]

ClusterPool == BasePool \cup ThemePool

\* the i-th event of a batch has id 'a', 'b', 'c', ...
IdAt(i) == <<96 + i>>

MkBatch(attrs) ==
    [i \in 1..Len(attrs) |->
        [id |-> IdAt(i),
         tier |-> attrs[i].tier,
         title |-> attrs[i].title,
         publishedAt |-> attrs[i].publishedAt,
         tickerCodes |-> attrs[i].tickerCodes,
         eventType |-> attrs[i].eventType,
         sourceName |-> SourceOfTier(attrs[i].tier)]]

BatchesOver(pool, maxLen) ==
    {MkBatch(attrs) : attrs \in UNION {[1..n -> pool] : n \in 0..maxLen}}

DEFAULT_CONFIG ==
    [timeWindowMinutes |-> 30,
     similarityThreshold |-> [num |-> 7, den |-> 10],
     cooldownMinutes |-> 30]

NoProfile == createUserProfile(<<>>)

----------------------------------------------------------------------------
(* Clustering runs: clusterEvents on a batch, then applyCooldown on its result *)

Init ==
    /\ batch \in BatchesOver(ClusterPool, MaxEvents)
    /\ config = DEFAULT_CONFIG
    /\ clusters = <<>>
    /\ cooled = <<>>
    /\ cooldownArg = 0
    /\ profile = NoProfile
    /\ personalized = <<>>
    /\ unread = <<>>
    /\ ranked = <<>>
    /\ readEventIds = {}
    /\ pc = "init"
    /\ ServicesIdle

ClusterEvents ==
    /\ pc = "init"
    /\ clusters' = clusterEvents(batch, config)
    /\ pc' = "clustered"
    /\ UNCHANGED <<batch, config, cooled, cooldownArg, profile, personalized,
                   unread, ranked, readEventIds>>
    /\ UNCHANGED serviceVars

ApplyCooldown ==
    /\ pc = "clustered"
    /\ cooldownArg' = config.cooldownMinutes
    /\ cooled' = applyCooldown(clusters, config.cooldownMinutes)
    /\ clusters' = applyCooldownArgument(clusters, config.cooldownMinutes)
    /\ pc' = "cooled"
    /\ UNCHANGED <<batch, config, profile, personalized, unread, ranked, readEventIds>>
    /\ UNCHANGED serviceVars

Next == ClusterEvents \/ ApplyCooldown

Spec == Init /\ [][Next]_vars

----------------------------------------------------------------------------
(* Properties of the clusterer *)

\* every cluster built so far, by clusterEvents or by a cooldown merge
Built == Range(clusters) \cup Range(cooled)

Members(c) == Range(c.events)

MemberIds(c) == {c.events[i].id : i \in 1..Len(c.events)}

NumTier(c, t) == Cardinality({i \in 1..Len(c.events) : c.events[i].tier = t})

\* C1: the base impact of every built cluster is a function of the members'
\* tiers: strong iff at least one tier-A or at least two tier-B members,
\* medium iff no tier-A and exactly one tier-B member, weak iff only tier-C.
C1_ImpactFromTiers ==
    \A c \in Built :
        /\ c.impact = "strong" <=> (NumTier(c, "A") >= 1 \/ NumTier(c, "B") >= 2)
        /\ c.impact = "medium" <=> (NumTier(c, "A") = 0 /\ NumTier(c, "B") = 1)
        /\ c.impact = "weak" <=> (NumTier(c, "A") = 0 /\ NumTier(c, "B") = 0)

\* a cooldown merge produced a strong cluster out of two tier-B members and no tier-A
C1_Witness ==
    /\ pc = "cooled"
    /\ \E c \in Range(cooled) :
          /\ c \notin Range(clusters)
          /\ NumTier(c, "A") = 0 /\ NumTier(c, "B") = 2 /\ NumTier(c, "C") = 1
          /\ c.impact = "strong"

\* C2: for every cluster returned by clusterEvents or applyCooldown,
\* shouldDeliver holds iff the base impact is strong; a cluster made of a
\* single tier-A member is deliverable and strong, a cluster whose only
\* tier-A/B member is one tier-B event is not deliverable and medium, a
\* cluster with two tier-B members is deliverable and strong.
C2_DeliverIffStrong ==
    \A c \in Built :
        /\ shouldDeliver(c) <=> c.impact = "strong"
        /\ (Len(c.events) = 1 /\ NumTier(c, "A") = 1)
              => (shouldDeliver(c) /\ c.impact = "strong")
        /\ (NumTier(c, "B") = 1 /\ NumTier(c, "A") = 0)
              => (~shouldDeliver(c) /\ c.impact = "medium")
        /\ NumTier(c, "B") = 2 => (shouldDeliver(c) /\ c.impact = "strong")

\* clusterEvents returned a single-A cluster, a single-B cluster and nothing else
C2_Witness ==
    /\ pc = "clustered"
    /\ Len(clusters) = 2
    /\ \E i, j \in 1..2 :
          /\ Len(clusters[i].events) = 1 /\ clusters[i].events[1].tier = "A"
          /\ shouldDeliver(clusters[i])
          /\ Len(clusters[j].events) = 1 /\ clusters[j].events[1].tier = "B"
          /\ ~shouldDeliver(clusters[j])

SameTheme(c1, c2, windowMinutes) ==
    /\ c1.primaryTicker = c2.primaryTicker
    /\ c1.eventType = c2.eventType
    /\ Abs(getTime(c1.publishedAt) - getTime(c2.publishedAt)) <= windowMinutes * 60 * 1000

\* C6: after applyCooldown no two distinct clusters of the result have the
\* same primary ticker, the same category and publish times within the window.
C6_NoThemeTwiceInWindow ==
    pc = "cooled" =>
        \A i, j \in 1..Len(cooled) :
            i # j => ~SameTheme(cooled[i], cooled[j], cooldownArg)

\* C7: two input clusters with distinct ids: when they have the same primary
\* ticker and category and lie within the window, applyCooldown returns one
\* cluster whose members are the union of both; otherwise it returns both
\* clusters unmerged.
C7_TwoClusters ==
    (pc = "cooled" /\ Len(clusters) = 2 /\ clusters[1].clusterId # clusters[2].clusterId) =>
        IF SameTheme(clusters[1], clusters[2], cooldownArg)
        THEN /\ Len(cooled) = 1
             /\ Members(cooled[1]) = Members(clusters[1]) \cup Members(clusters[2])
        ELSE /\ Len(cooled) = 2
             /\ Range(cooled) = Range(clusters)

\* two clusters of one theme, 20 minutes apart, were merged into one
C7_Witness ==
    /\ pc = "cooled"
    /\ Len(clusters) = 2
    /\ clusters[1].publishedAt # clusters[2].publishedAt
    /\ Len(cooled) = 1
    /\ Cardinality(Members(cooled[1])) >= 2

\* the batch with the fields that clustering must not depend on replaced
Scrub(events) ==
    [i \in 1..Len(events) |->
        [events[i] EXCEPT !.eventType = "other", !.sourceName = "X"]]

Shape(cs) ==
    [i \in 1..Len(cs) |-> [clusterId |-> cs[i].clusterId, members |-> MemberIds(cs[i])]]

\* the id `${ticker}_${timestamp}_${hash}` from the three things it may depend on
IdFrom(sortedIds, ticker, timestamp) ==
    (IF ticker = <<>> THEN Unknown ELSE ticker) \o <<95>> \o ToDigits(timestamp, 10)
        \o <<95>> \o simpleHash(JoinBar(sortedIds))

\* C8: a second run of clusterEvents on a batch with the same ids, tiers,
\* publish times, titles and tickers yields the same member sets and the same
\* cluster ids, and each id is determined by the sorted member ids, the
\* primary member's first ticker and the primary member's publish timestamp.
C8_Deterministic ==
    pc = "clustered" =>
        /\ Shape(clusterEvents(Scrub(batch), config)) = Shape(clusters)
        /\ \A c \in Range(clusters) :
              c.clusterId =
                  IdFrom(SortIds([i \in 1..Len(c.events) |-> c.events[i].id]),
                         c.primaryTicker, getTime(c.events[1].publishedAt))

\* a cluster whose members are not in id order and whose primary member is not
\* the first event of the batch, on a batch that carries two categories
C8_Witness ==
    /\ pc = "clustered"
    /\ \E i, j \in 1..Len(batch) : batch[i].eventType # batch[j].eventType
    /\ \E c \in Range(clusters) :
          /\ Len(c.events) = 3
          /\ c.events[1].id = IdAt(3)
          /\ c.events[2].id = IdAt(1)

----------------------------------------------------------------------------
(* Personalization runs: clusterEvents on a batch, then personalizeEvents of
   the clusters for a profile *)

MaxPersonalEvents == 2

\* events of two tickers and of a category of default weight 1.4 and one of 1.2
PersonalPool ==
    [tier : Tiers, publishedAt : {20}, title : {TitleToyota},
     tickerCodes : {<<T7203>>, <<T6758>>}, eventType : {"capital", "guidance"}]

Watchlists == {<<>>, <<T7203>>, <<T6758, T7203>>}

PositionChoices ==
    {[has |-> FALSE, shares |-> <<>>],
     [has |-> TRUE, shares |-> (T7203 :> 100)],
     [has |-> TRUE, shares |-> (T7203 :> 100) @@ (T6758 :> 300)]}

\* overrides in tenths: none, at and above the 1.4 mark, below it, 0 and a negative one
WeightChoices ==
    {<<>>, ("guidance" :> 14), ("guidance" :> 20), ("capital" :> 13),
     ("capital" :> 0), ("guidance" :> -20)}

Profiles ==
    {[createUserProfile(w) EXCEPT !.hasPositions = p.has, !.positions = p.shares,
                                  !.eventTypeWeights = ew] :
        w \in Watchlists, p \in PositionChoices, ew \in WeightChoices}

InitPersonal ==
    /\ batch \in BatchesOver(PersonalPool, MaxPersonalEvents)
    /\ config = DEFAULT_CONFIG
    /\ clusters = <<>>
    /\ cooled = <<>>
    /\ cooldownArg = 0
    /\ profile \in Profiles
    /\ personalized = <<>>
    /\ unread = <<>>
    /\ ranked = <<>>
    /\ readEventIds = {}
    /\ pc = "init"
    /\ ServicesIdle

PersonalizeEvents ==
    /\ pc # "init"
    /\ personalized' = personalizeEvents(clusters, profile)
    /\ pc' = "personalized"
    /\ UNCHANGED <<batch, config, clusters, cooled, cooldownArg, profile, unread,
                   ranked, readEventIds>>
    /\ UNCHANGED serviceVars

NextPersonal == ClusterEvents \/ PersonalizeEvents

SpecPersonal == InitPersonal /\ [][NextPersonal]_vars

----------------------------------------------------------------------------
(* Properties of the personalizer *)

ImpactRank(impact) ==
    CASE impact = "weak" -> 1 [] impact = "medium" -> 2 [] impact = "strong" -> 3

\* C3: the personal impact returned by personalizeEvent is never lower than
\* the cluster's base impact, the base impact is carried over unchanged, and
\* a strong cluster stays strong for every relevance score in 0..100.
C3_NeverDowngraded ==
    pc = "personalized" =>
        /\ \A c \in Range(clusters) :
              LET p == personalizeEvent(c, profile)
              IN /\ ImpactRank(p.personalImpact) >= ImpactRank(c.impact)
                 /\ p.impact = c.impact
        /\ \A p \in Range(personalized) :
              /\ ImpactRank(p.personalImpact) >= ImpactRank(p.impact)
              /\ \E c \in Range(clusters) : c.clusterId = p.clusterId /\ c.impact = p.impact
        /\ \A c \in Range(clusters) : \A score \in 0..100 :
              c.impact = "strong" => determinePersonalImpact(c, profile, score) = "strong"

\* a strong cluster of low relevance kept strong, next to a weak one upgraded to medium
C3_Witness ==
    /\ pc = "personalized"
    /\ \E p \in Range(personalized) :
          p.impact = "strong" /\ p.relevanceScore < 70 /\ p.personalImpact = "strong"
    /\ \E p \in Range(personalized) :
          p.impact = "weak" /\ p.personalImpact = "medium"

\* C4: determinePersonalImpact follows the table for every relevance score in
\* 0..100: weak -> medium iff score >= 70 (never strong); medium -> strong iff
\* score >= 85 or the resolved category weight >= 1.4; strong -> strong.
C4_ImpactTable ==
    \A c \in Range(clusters) : \A score \in 0..100 :
        determinePersonalImpact(c, profile, score) =
            CASE c.impact = "weak" -> (IF score >= 70 THEN "medium" ELSE "weak")
              [] c.impact = "medium" ->
                    (IF score >= 85 \/ ResolveTypeWeight(c, profile) >= 14
                     THEN "strong" ELSE "medium")
              [] c.impact = "strong" -> "strong"

\* a medium cluster below score 85 became strong through its category weight,
\* next to a medium cluster of a category below 1.4 that stayed medium
C4_Witness ==
    /\ pc = "personalized"
    /\ \E p \in Range(personalized) :
          /\ p.impact = "medium" /\ p.relevanceScore < 85
          /\ p.personalImpact = "strong"
    /\ \E p \in Range(personalized) :
          /\ p.impact = "medium" /\ ResolveTypeWeight(p, profile) < 14
          /\ p.personalImpact = "medium"

NoOverlap(c, prof) == Range(c.allTickers) \cap Range(prof.watchlist) = {}

\* the positions of the clusters that personalizeEvents must keep, in input order
KeptIndex(prof, k) ==
    LET K == {i \in 1..Len(clusters) : personalizeEvent(clusters[i], prof).relevanceScore > 0}
    IN CHOOSE i \in K : Cardinality({j \in K : j < i}) = k - 1

\* C5: a cluster without a watchlist ticker scores exactly 0 and is absent
\* from the output of personalizeEvents, and that output is, in input order,
\* exactly the personalized clusters whose score is greater than 0.
C5_RelevanceFloor ==
    pc = "personalized" =>
        /\ \A c \in Range(clusters) :
              NoOverlap(c, profile) =>
                  /\ calculateRelevanceScore(c, profile).score = 0
                  /\ \A p \in Range(personalized) : p.clusterId # c.clusterId
        /\ Len(personalized) =
              Cardinality({i \in 1..Len(clusters) :
                              personalizeEvent(clusters[i], profile).relevanceScore > 0})
        /\ \A k \in 1..Len(personalized) :
              personalized[k] = personalizeEvent(clusters[KeptIndex(profile, k)], profile)

\* of two clusters, the one outside the watchlist was dropped and the other kept
C5_Witness ==
    /\ pc = "personalized"
    /\ profile.watchlist # <<>>
    /\ profile.hasPositions
    /\ Len(clusters) = 2
    /\ Len(personalized) = 1
    /\ \E c \in Range(clusters) : NoOverlap(c, profile) /\ c.impact = "strong"

----------------------------------------------------------------------------
(* Read tracking: one profile, its personalized events, and the calls that
   read or write the read-sets (profile.readEvents of the service, and
   readEventIds of the events slice) *)

MaxReadEvents == 2

MaxReadSet == 2

ReadPool ==
    [tier : {"A"}, publishedAt : {20}, title : {TitleToyota, TitleSony},
     tickerCodes : {<<T7203>>}, eventType : {"capital"}]

StrayId == <<122>>  \* 'z', the id of no event and of no cluster

\* reference time of the ranking calls, in minutes after the base instant
ReferenceTime == 90

\* the ids a caller can mark: member event ids, cluster ids, and a stray id
MarkableIds ==
    {batch[i].id : i \in 1..Len(batch)}
        \cup {clusters[i].clusterId : i \in 1..Len(clusters)}
        \cup {StrayId}

IdLists == {<<x>> : x \in MarkableIds} \cup {<<x, y>> : x \in MarkableIds, y \in MarkableIds}

\* the ids the app dispatches to the slice: cluster ids (App.tsx), and a stray id
SliceIds == {clusters[i].clusterId : i \in 1..Len(clusters)} \cup {StrayId}

SliceIdLists == {<<x>> : x \in SliceIds} \cup {<<x, y>> : x \in SliceIds, y \in SliceIds}

InitRead ==
    /\ batch \in BatchesOver(ReadPool, MaxReadEvents)
    /\ config = DEFAULT_CONFIG
    /\ clusters = <<>>
    /\ cooled = <<>>
    /\ cooldownArg = 0
    /\ profile = createUserProfile(<<T7203>>)
    /\ personalized = <<>>
    /\ unread = <<>>
    /\ ranked = <<>>
    /\ readEventIds = {}
    /\ pc = "init"
    /\ ServicesIdle

Ready == pc \notin {"init", "clustered"}

MarkEventsAsRead ==
    /\ Ready
    /\ \E ids \in IdLists :
          /\ Cardinality(profile.readEvents \cup Range(ids)) <= MaxReadSet
          /\ profile' = markEventsAsRead(profile, ids)
    /\ pc' = "markEventsAsRead"
    /\ UNCHANGED <<batch, config, clusters, cooled, cooldownArg, personalized, unread,
                   ranked, readEventIds>>
    /\ UNCHANGED serviceVars

FilterUnreadEvents ==
    /\ Ready
    /\ unread' = filterUnreadEvents(personalized, profile)
    /\ pc' = "filterUnreadEvents"
    /\ UNCHANGED <<batch, config, clusters, cooled, cooldownArg, profile, personalized,
                   ranked, readEventIds>>
    /\ UNCHANGED serviceVars

RankEvents ==
    /\ Ready
    /\ ranked' = rankEvents(unread, LIVE_FEED_RANKING, ReferenceTime)
    /\ pc' = "rankEvents"
    /\ UNCHANGED <<batch, config, clusters, cooled, cooldownArg, profile, personalized,
                   unread, readEventIds>>
    /\ UNCHANGED serviceVars

MarkEventRead ==
    /\ Ready
    /\ \E id \in SliceIds :
          /\ Cardinality(readEventIds \cup {id}) <= MaxReadSet
          /\ readEventIds' = markEventRead(readEventIds, id)
    /\ pc' = "markEventRead"
    /\ UNCHANGED <<batch, config, clusters, cooled, cooldownArg, profile, personalized,
                   unread, ranked>>
    /\ UNCHANGED serviceVars

MarkEventsRead ==
    /\ Ready
    /\ \E ids \in SliceIdLists :
          /\ Cardinality(readEventIds \cup Range(ids)) <= MaxReadSet
          /\ readEventIds' = markEventsRead(readEventIds, ids)
    /\ pc' = "markEventsRead"
    /\ UNCHANGED <<batch, config, clusters, cooled, cooldownArg, profile, personalized,
                   unread, ranked>>
    /\ UNCHANGED serviceVars

ClearReadEvents ==
    /\ Ready
    /\ readEventIds' = clearReadEvents(readEventIds)
    /\ pc' = "clearReadEvents"
    /\ UNCHANGED <<batch, config, clusters, cooled, cooldownArg, profile, personalized,
                   unread, ranked>>
    /\ UNCHANGED serviceVars

NextRead ==
    \/ ClusterEvents
    \/ PersonalizeEvents
    \/ MarkEventsAsRead
    \/ FilterUnreadEvents
    \/ RankEvents
    \/ MarkEventRead
    \/ MarkEventsRead
    \/ ClearReadEvents

SpecRead == InitRead /\ [][NextRead]_vars

----------------------------------------------------------------------------
(* Properties of read tracking *)

IsRead(event, readSet) ==
    event.clusterId \in readSet \/ MemberIds(event) \cap readSet # {}

PositionIn(s, x) == CHOOSE k \in 1..Len(s) : s[k] = x

\* C9: filterUnreadEvents keeps an event iff the read-set contains neither
\* its cluster id nor the id of any member; the kept events are in input
\* order, and the read-set is not modified by the call.
C9_FilterUnread ==
    /\ [](pc = "filterUnreadEvents" =>
            /\ \A e \in Range(personalized) :
                  e \in Range(unread) <=> ~IsRead(e, profile.readEvents)
            /\ Range(unread) \subseteq Range(personalized)
            /\ \A i, j \in 1..Len(unread) :
                  i < j => PositionIn(personalized, unread[i]) < PositionIn(personalized, unread[j]))
    /\ [][pc' = "filterUnreadEvents" => profile'.readEvents = profile.readEvents]_vars

\* of two events, the filter dropped the one with a read member and kept the
\* other although a stray id and the other's cluster were not involved
C9_Witness ==
    /\ pc = "filterUnreadEvents"
    /\ Len(personalized) = 2
    /\ Len(unread) = 1
    /\ unread[1] = personalized[2]
    /\ personalized[1].clusterId \notin profile.readEvents
    /\ MemberIds(personalized[1]) \cap profile.readEvents # {}

\* C10: over any sequence of the calls, the read-sets only grow, so an event
\* that filterUnreadEvents drops as read is dropped by every later call;
\* only clearReadEvents shrinks a set, and it empties the slice's set.
C10_ReadSetGrows ==
    [][/\ profile.readEvents \subseteq profile'.readEvents
       /\ pc' # "clearReadEvents" => readEventIds \subseteq readEventIds'
       /\ pc' = "clearReadEvents" => readEventIds' = {}
       /\ \A e \in Range(personalized) :
             e \notin Range(filterUnreadEvents(personalized, profile))
                => e \notin Range(filterUnreadEvents(personalized', profile'))]_vars

\* the filter ran on a read-set that was filled by two marks, after a ranking
\* call, and dropped an event; the slice's set is filled too
C10_Witness ==
    /\ pc = "filterUnreadEvents"
    /\ Cardinality(profile.readEvents) = 2
    /\ readEventIds # {}
    /\ ranked # <<>>
    /\ Len(unread) < Len(personalized)

----------------------------------------------------------------------------
(* Ranking runs: rankEvents or rankEventsWithTierPriority on a list of
   personalized events, for a ranking config and a reference time *)

MaxRankEvents == 3

\* reference time of the ranking runs: 200 hours after the base instant
RankReference == 12000

\* base impact, personal impact (never below the base impact) and sources
RankKinds ==
    {[impact |-> "strong", personalImpact |-> "strong", sources |-> <<"EDINET", "PR TIMES">>],
     [impact |-> "medium", personalImpact |-> "strong", sources |-> <<"PR TIMES">>],
     [impact |-> "weak", personalImpact |-> "weak", sources |-> <<"news">>]}

\* relevance 10 or 100, published 30 minutes or 30 hours before the reference
RankPool ==
    [relevanceScore : {10, 100},
     publishedAt : {RankReference - 30, RankReference - 30 * 60},
     kind : RankKinds]

MkPersonalized(attrs) ==
    [i \in 1..Len(attrs) |->
        [clusterId |-> IdAt(i),
         impact |-> attrs[i].kind.impact,
         publishedAt |-> attrs[i].publishedAt,
         sources |-> attrs[i].kind.sources,
         relevanceScore |-> attrs[i].relevanceScore,
         personalImpact |-> attrs[i].kind.personalImpact]]

PersonalizedOver(pool, maxLen) ==
    {MkPersonalized(attrs) : attrs \in UNION {[1..n -> pool] : n \in 0..maxLen}}

RankingConfigs ==
    {DEFAULT_RANKING_CONFIG, MORNING_DIGEST_RANKING, LIVE_FEED_RANKING, IMPACT_FIRST_RANKING}

\* the clustering, personalization and read-tracking state before any run
PipelineIdle ==
    /\ batch = <<>>
    /\ config = DEFAULT_CONFIG
    /\ clusters = <<>>
    /\ cooled = <<>>
    /\ cooldownArg = 0
    /\ profile = NoProfile
    /\ unread = <<>>
    /\ readEventIds = {}

InitRank ==
    /\ PipelineIdle
    /\ personalized \in PersonalizedOver(RankPool, MaxRankEvents)
    /\ ranked = <<>>
    /\ pc = "init"
    /\ rankingConfig \in RankingConfigs
    /\ referenceDate = RankReference
    /\ recencyCall = <<>>
    /\ similarityCall = <<>>
    /\ urlCall = <<>>
    /\ rawEvents = <<>>
    /\ normalized = <<>>
    /\ sentNotifications = {}
    /\ scheduled = <<>>
    /\ calls = <<>>

RankEventsBy ==
    /\ pc = "init"
    /\ ranked' = rankEvents(personalized, rankingConfig, referenceDate)
    /\ pc' = "rankEvents"
    /\ UNCHANGED <<batch, config, clusters, cooled, cooldownArg, profile, personalized,
                   unread, readEventIds>>
    /\ UNCHANGED serviceVars

RankEventsWithTierPriority ==
    /\ pc = "init"
    /\ ranked' = rankEventsWithTierPriority(personalized, rankingConfig, referenceDate)
    /\ pc' = "rankEventsWithTierPriority"
    /\ UNCHANGED <<batch, config, clusters, cooled, cooldownArg, profile, personalized,
                   unread, readEventIds>>
    /\ UNCHANGED serviceVars

\* rankEvents on its own result, with the same config and reference time
RankEventsAgain ==
    /\ pc = "rankEvents"
    /\ ranked' = rankEvents(ranked, rankingConfig, referenceDate)
    /\ pc' = "rankEventsAgain"
    /\ UNCHANGED <<batch, config, clusters, cooled, cooldownArg, profile, personalized,
                   unread, readEventIds>>
    /\ UNCHANGED serviceVars

NextRank == RankEventsBy \/ RankEventsWithTierPriority \/ RankEventsAgain

SpecRank == InitRank /\ [][NextRank]_vars

----------------------------------------------------------------------------
(* Properties of the ranker *)

Occurrences(s, x) == Cardinality({i \in 1..Len(s) : s[i] = x})

IsPermutation(s, t) ==
    /\ Len(s) = Len(t)
    /\ \A x \in Range(s) \cup Range(t) : Occurrences(s, x) = Occurrences(t, x)

ScoresNonIncreasing(s, rcfg, ref) ==
    \A i \in 1..(Len(s) - 1) :
        calculateRankingScore(s[i], rcfg, ref) >= calculateRankingScore(s[i + 1], rcfg, ref)

\* C11: a rankEvents call leaves its input list unchanged and returns a
\* permutation of it in which the composite scores, computed with the given
\* config and reference time, are non-increasing from first to last.
C11_RankedByScore ==
    [][pc' = "rankEvents" =>
          /\ personalized' = personalized
          /\ IsPermutation(ranked', personalized)
          /\ ScoresNonIncreasing(ranked', rankingConfig, referenceDate)]_vars

\* three events were reordered: the first of the input came out last with a
\* strictly lower score, the other two have tied scores (both clamped to 100)
C11_Witness ==
    /\ pc = "rankEvents"
    /\ Len(personalized) = 3
    /\ ranked[3] = personalized[1]
    /\ calculateRankingScore(ranked[1], rankingConfig, referenceDate)
          = calculateRankingScore(ranked[2], rankingConfig, referenceDate)
    /\ calculateRankingScore(ranked[2], rankingConfig, referenceDate)
          > calculateRankingScore(ranked[3], rankingConfig, referenceDate)

\* C12: in the result of rankEventsWithTierPriority every base-strong event
\* precedes every event that is not base-strong, the scores are non-increasing
\* within each of the two groups, and the result is a permutation of the input.
C12_StrongFirst ==
    pc = "rankEventsWithTierPriority" =>
        /\ IsPermutation(ranked, personalized)
        /\ \A i, j \in 1..Len(ranked) :
              (IsBaseStrong(ranked[i]) /\ ~IsBaseStrong(ranked[j])) => i < j
        /\ ScoresNonIncreasing(SelectSeq(ranked, IsBaseStrong), rankingConfig, referenceDate)
        /\ ScoresNonIncreasing(SelectSeq(ranked, IsNotBaseStrong), rankingConfig, referenceDate)

\* a base-strong event precedes an event of base impact medium and personal
\* impact strong whose composite score is strictly higher
C12_Witness ==
    /\ pc = "rankEventsWithTierPriority"
    /\ \E i, j \in 1..Len(ranked) :
          /\ i < j
          /\ ranked[i].impact = "strong"
          /\ ranked[j].impact = "medium" /\ ranked[j].personalImpact = "strong"
          /\ calculateRankingScore(ranked[i], rankingConfig, referenceDate)
                < calculateRankingScore(ranked[j], rankingConfig, referenceDate)

----------------------------------------------------------------------------
(* Recency runs: calculateRecencyScore for publish times around a reference *)

MaxAgeHours == 200

\* ages in minutes: future, every half hour up to MaxAgeHours, and the last
\* minute before each step of the staircase
AgeMinutes ==
    {-60, -1} \cup {30 * k : k \in 0..(2 * MaxAgeHours)}
        \cup {60 * h - 1 : h \in {1, 6, 24, 48, 168}}

RecencyReferences == {RankReference, RankReference + 1}

InitRecency ==
    /\ PipelineIdle
    /\ personalized = <<>>
    /\ ranked = <<>>
    /\ pc = "init"
    /\ rankingConfig = <<>>
    /\ referenceDate \in RecencyReferences
    /\ recencyCall = <<>>
    /\ similarityCall = <<>>
    /\ urlCall = <<>>
    /\ rawEvents = <<>>
    /\ normalized = <<>>
    /\ sentNotifications = {}
    /\ scheduled = <<>>
    /\ calls = <<>>

CalculateRecencyScore ==
    /\ \E age \in AgeMinutes :
          LET publishedAt == referenceDate - age
          IN recencyCall' = [publishedAt |-> publishedAt,
                             score |-> calculateRecencyScore(publishedAt, referenceDate)]
    /\ pc' = "calculateRecencyScore"
    /\ UNCHANGED pipelineVars
    /\ UNCHANGED <<rankingConfig, referenceDate, similarityCall, urlCall, rawEvents,
                   normalized, sentNotifications, scheduled, calls>>

NextRecency == CalculateRecencyScore

SpecRecency == InitRecency /\ [][NextRecency]_vars

\* the staircase of the claim, for an age in minutes
StaircaseOfAge(age) ==
    IF age < 0 THEN 100
    ELSE IF age < 1 * 60 THEN 100
    ELSE IF age < 6 * 60 THEN 90
    ELSE IF age < 24 * 60 THEN 70
    ELSE IF age < 48 * 60 THEN 40
    ELSE IF age < 168 * 60 THEN 20
    ELSE 0

----------------------------------------------------------------------------
(* End-to-end runs: clusterEvents on a batch of near-identical reports, then
   personalizeEvents of the clusters for a profile *)

MaxEndToEndEvents == 3

TitleFiling == <<97, 98, 99, 100, 101, 102, 103, 104>>         \* 'abcdefgh'
TitleWireOne == <<97, 98, 99, 100, 101, 102, 103, 104, 105>>   \* 'abcdefghi': 7/8 to the filing
TitleWireTwo == <<97, 98, 99, 100, 101, 102, 103, 120>>        \* 'abcdefgx': 6/8 to the filing, 6/9 to the other wire

\* tier A and B reports of ticker 7203 at 0, 20 and 40 minutes with the three
\* titles, and two wire reports that carry ticker 6758
EndToEndPool ==
    [tier : {"A", "B"}, publishedAt : Times,
     title : {TitleFiling, TitleWireOne, TitleWireTwo},
     tickerCodes : {<<T7203>>}, eventType : {"other"}]
    \cup [tier : {"B"}, publishedAt : {20}, title : {TitleFiling},
          tickerCodes : {<<T6758>>, <<T6758, T7203>>}, eventType : {"other"}]

\* a profile watching 7203 only, and one watching both tickers that holds 6758 only
EndToEndProfiles ==
    {createUserProfile(<<T7203>>),
     [createUserProfile(<<T6758, T7203>>) EXCEPT !.hasPositions = TRUE,
                                                  !.positions = (T6758 :> 100)]}

InitEndToEnd ==
    /\ batch \in BatchesOver(EndToEndPool, MaxEndToEndEvents)
    /\ config = DEFAULT_CONFIG
    /\ clusters = <<>>
    /\ cooled = <<>>
    /\ cooldownArg = 0
    /\ profile \in EndToEndProfiles
    /\ personalized = <<>>
    /\ unread = <<>>
    /\ ranked = <<>>
    /\ readEventIds = {}
    /\ pc = "init"
    /\ ServicesIdle

NextEndToEnd == ClusterEvents \/ PersonalizeEvents

SpecEndToEnd == InitEndToEnd /\ [][NextEndToEnd]_vars

\* the events of the batch with the latest publish time
NewestOf(events) ==
    {i \in 1..Len(events) :
        \A j \in 1..Len(events) : events[j].publishedAt <= events[i].publishedAt}

\* one tier-A and two tier-B events that all carry ticker t, all within the
\* window of the newest and all with a title similar enough to the newest
NearIdenticalReports(events, cfg, t) ==
    /\ Len(events) = 3
    /\ CountTier(events, "A") = 1
    /\ CountTier(events, "B") = 2
    /\ \A i \in 1..3 : Contains(events[i].tickerCodes, t)
    /\ \A n \in NewestOf(events) : \A i \in 1..3 :
          /\ Abs(getTime(events[n].publishedAt) - getTime(events[i].publishedAt))
                <= cfg.timeWindowMinutes * 60 * 1000
          /\ SimilarityAtLeast(calculateSimilarity(events[n].title, events[i].title),
                               cfg.similarityThreshold)

\* C14: a batch of one tier-A and two tier-B events of one ticker, all within
\* the window of the newest and similar enough to it, clusters into exactly one
\* cluster of 3 members with base impact strong and shouldDeliver true; for a
\* profile that watches the ticker and has no weight overrides the personalized
\* cluster has relevance above 30 and personal impact strong.
C14_EndToEnd ==
    \A t \in {T7203, T6758} :
        (pc # "init" /\ NearIdenticalReports(batch, config, t)) =>
            /\ Len(clusters) = 1
            /\ Len(clusters[1].events) = 3
            /\ MemberIds(clusters[1]) = {batch[i].id : i \in 1..3}
            /\ clusters[1].impact = "strong"
            /\ shouldDeliver(clusters[1])
            /\ (pc = "personalized" /\ Contains(profile.watchlist, t)
                    /\ profile.eventTypeWeights = <<>>) =>
                  /\ Len(personalized) = 1
                  /\ personalized[1].relevanceScore > 30
                  /\ personalized[1].personalImpact = "strong"

\* two older reports whose titles are not similar enough to each other and
\* a newest report similar to both came out as one personalized cluster
C14_Witness ==
    /\ pc = "personalized"
    /\ NearIdenticalReports(batch, config, T7203)
    /\ \E i, j \in 1..3 :
          /\ i \notin NewestOf(batch) /\ j \notin NewestOf(batch)
          /\ ~SimilarityAtLeast(calculateSimilarity(batch[i].title, batch[j].title),
                                config.similarityThreshold)
    /\ Len(personalized) = 1
    /\ Len(personalized[1].events) = 3

----------------------------------------------------------------------------
(* Similarity runs: calculateSimilarity on two titles *)

MaxTextLen == 3

\* 'a', 'A', 'b', a space and the punctuation mark U+3002
TextUnits == {97, 65, 98, 32, 12290}

Texts == UNION {[1..n -> TextUnits] : n \in 0..MaxTextLen}

InitSimilarity ==
    /\ PipelineIdle
    /\ personalized = <<>>
    /\ ranked = <<>>
    /\ pc = "init"
    /\ rankingConfig = <<>>
    /\ referenceDate = 0
    /\ recencyCall = <<>>
    /\ similarityCall \in [text1 : Texts, text2 : Texts, result : {<<>>}]
    /\ urlCall = <<>>
    /\ rawEvents = <<>>
    /\ normalized = <<>>
    /\ sentNotifications = {}
    /\ scheduled = <<>>
    /\ calls = <<>>

CalculateSimilarity ==
    /\ pc = "init"
    /\ similarityCall' =
          [similarityCall EXCEPT
              !.result = calculateSimilarity(similarityCall.text1, similarityCall.text2)]
    /\ pc' = "calculateSimilarity"
    /\ UNCHANGED pipelineVars
    /\ UNCHANGED <<rankingConfig, referenceDate, recencyCall, urlCall, rawEvents,
                   normalized, sentNotifications, scheduled, calls>>

NextSimilarity == CalculateSimilarity

SpecSimilarity == InitSimilarity /\ [][NextSimilarity]_vars

\* 0 <= similarity <= 1 (a number), 0 for disjoint bigram sets and 0 for two
\* empty bigram sets
SimilarityBounded(call) ==
    LET bigrams1 == getBigrams(normalizeText(call.text1))
        bigrams2 == getBigrams(normalizeText(call.text2))
    IN /\ call.result.den > 0
       /\ 0 <= call.result.num /\ call.result.num <= call.result.den
       /\ bigrams1 \cap bigrams2 = {} => call.result.num = 0
       /\ (bigrams1 = {} /\ bigrams2 = {}) => call.result.num = 0

\* C15 as stated: similarity(s, s) = 1.0 for every non-empty s, the similarity
\* is between 0 and 1, it is 0 for disjoint bigram sets and 0 (not NaN) for two
\* empty bigram sets.
C15_ReflexiveForNonEmpty ==
    pc = "calculateSimilarity" =>
        /\ (similarityCall.text1 = similarityCall.text2 /\ similarityCall.text1 # <<>>) =>
              similarityCall.result.num = similarityCall.result.den
        /\ SimilarityBounded(similarityCall)

\* C15 amended: similarity(s, s) = 1.0 for every s that keeps at least two
\* characters after lower-casing and removing whitespace and punctuation, and
\* similarity(s, s) = 0 for every other s; the similarity is between 0 and 1,
\* it is 0 for disjoint bigram sets and 0 (not NaN) for two empty bigram sets.
C15_ReflexiveForTwoChars ==
    pc = "calculateSimilarity" =>
        /\ similarityCall.text1 = similarityCall.text2 =>
              IF Len(normalizeText(similarityCall.text1)) >= 2
              THEN similarityCall.result.num = similarityCall.result.den
              ELSE similarityCall.result.num = 0
        /\ SimilarityBounded(similarityCall)

\* a title of three characters that keeps two of them was compared with
\* itself and the result is 1
C15_Witness ==
    /\ pc = "calculateSimilarity"
    /\ similarityCall.text1 = similarityCall.text2
    /\ Len(similarityCall.text1) = 3
    /\ Len(normalizeText(similarityCall.text1)) = 2
    /\ similarityCall.result.num = 1 /\ similarityCall.result.den = 1

----------------------------------------------------------------------------
(* normalizationService: strings are sequences of UTF-16 code units *)

\* [eventType, keywords] in the declaration order of EVENT_TYPE_KEYWORDS,
\* which is the order Object.entries iterates in
EVENT_TYPE_KEYWORDS ==
    <<[eventType |-> "upward",
       keywords |-> <<<<19978, 26041, 20462, 27491>>,
                      <<26989, 32318, 20104, 24819, 12398, 20462, 27491>>,
                      <<22679, 30410>>,
                      <<19978, 25391, 12428>>>>],
      [eventType |-> "capital",
       keywords |-> <<<<33258, 24049, 26666, 24335>>,
                      <<26666, 24335, 20998, 21106>>,
                      <<22679, 36039>>,
                      <<28187, 36039>>,
                      <<26666, 24335, 20341, 21512>>,
                      <<36039, 26412, 25552, 25658>>>>],
      [eventType |-> "partnership",
       keywords |-> <<<<26989, 21209, 25552, 25658>>,
                      <<36039, 26412, 25552, 25658>>,
                      <<21512, 24321>>,
                      <<21332, 26989>>,
                      <<36899, 25658>>>>],
      [eventType |-> "incident",
       keywords |-> <<<<20107, 25925>>,
                      <<19981, 31077, 20107>>,
                      <<12522, 12467, 12540, 12523>>,
                      <<27969, 20986>>,
                      <<24773, 22577, 28431, 27945>>>>],
      [eventType |-> "regulation",
       keywords |-> <<<<34892, 25919, 20966, 20998>>,
                      <<26989, 21209, 25913, 21892, 21629, 20196>>,
                      <<35506, 24500, 37329>>,
                      <<35215, 21046>>>>],
      [eventType |-> "earnings",
       keywords |-> <<<<27770, 31639>>,
                      <<26989, 32318>>,
                      <<36001, 21209, 35576, 34920>>,
                      <<22235, 21322, 26399>>,
                      <<26399, 26411>>,
                      <<26377, 20385, 35388, 21048, 22577, 21578, 26360>>>>],
      [eventType |-> "guidance",
       keywords |-> <<<<26989, 32318, 20104, 24819>>,
                      <<36890, 26399, 20104, 24819>>,
                      <<35211, 36890, 12375>>,
                      <<26989, 32318, 35211, 36796, 12415>>>>],
      [eventType |-> "newProduct",
       keywords |-> <<<<26032, 35069, 21697>>,
                      <<26032, 21830, 21697>>,
                      <<30330, 22770>>,
                      <<12522, 12522, 12540, 12473>>>>],
      [eventType |-> "order",
       keywords |-> <<<<21463, 27880>>,
                      <<22865, 32004>>,
                      <<21462, 24341, 38283, 22987>>>>],
      [eventType |-> "other",
       keywords |-> <<>>]>>

\* [company, ticker] in the declaration order of COMPANY_TICKER_MAP
COMPANY_TICKER_MAP ==
    <<[company |-> <<12488, 12520, 12479, 33258, 21205, 36554>>, ticker |-> <<55, 50, 48, 51>>],
      [company |-> <<12488, 12520, 12479>>, ticker |-> <<55, 50, 48, 51>>],
      [company |-> <<84, 79, 89, 79, 84, 65>>, ticker |-> <<55, 50, 48, 51>>]>>

\* String.prototype.includes
Includes(text, sub) ==
    \E i \in 0..(Len(text) - Len(sub)) : SubSeq(text, i + 1, i + Len(sub)) = sub

toLowerCaseText(text) == [i \in 1..Len(text) |-> toLowerCase(text[i])]

RECURSIVE TrimStart(_)
TrimStart(text) ==
    IF text # <<>> /\ Head(text) \in WhitespaceUnits THEN TrimStart(Tail(text)) ELSE text

RECURSIVE TrimEnd(_)
TrimEnd(text) ==
    IF text # <<>> /\ text[Len(text)] \in WhitespaceUnits
    THEN TrimEnd(SubSeq(text, 1, Len(text) - 1)) ELSE text

\* String.prototype.trim
Trim(text) == TrimEnd(TrimStart(text))

RECURSIVE CollapseWhitespace(_)
\* replace(/\s+/g, ' ')
CollapseWhitespace(text) ==
    IF text = <<>> THEN <<>>
    ELSE IF Head(text) \in WhitespaceUnits
         THEN <<32>> \o CollapseWhitespace(TrimStart(text))
         ELSE <<Head(text)>> \o CollapseWhitespace(Tail(text))

normalizeTitle(title) ==
    LET IsNotBreak(c) == c \notin {13, 10, 9}
        cleaned == SelectSeq(CollapseWhitespace(Trim(title)), IsNotBreak)
    IN SubSeq(cleaned, 1, Min2(200, Len(cleaned)))

\* the value null of normalizeTickerCode, falsy like the empty string
Null == <<>>

IsDigit(c) == c \in 48..57

RECURSIVE parseInt(_)
\* parseInt(cleaned, 10) of a string of decimal digits
parseInt(digits) ==
    IF digits = <<>> THEN 0
    ELSE 10 * parseInt(SubSeq(digits, 1, Len(digits) - 1)) + (digits[Len(digits)] - 48)

\* returns every code of 4 digits without the range check 1000..9999
normalizeTickerCode_NoRange(code) ==
    LET stripped == SelectSeq(Trim(code), IsDigit)
        cleaned == SubSeq(stripped, 1, Min2(4, Len(stripped)))
    IN IF Len(cleaned) = 4 THEN cleaned ELSE Null

normalizeTickerCode(code) ==
    LET stripped == SelectSeq(Trim(code), IsDigit)
        cleaned == SubSeq(stripped, 1, Min2(4, Len(stripped)))
    IN IF Len(cleaned) = 4
       THEN LET num == parseInt(cleaned)
            IN IF num >= 1000 /\ num <= 9999 THEN cleaned ELSE Null
       ELSE Null

resolveTickerCodes(codes, context) ==
    LET normalizedCodes == [i \in 1..Len(codes) |-> normalizeTickerCode(codes[i])]
        IsTruthy(c) == c # Null
        declared == SelectSeq(normalizedCodes, IsTruthy)
        Named(entry) == Includes(context, entry.company)
        named == SelectSeq(COMPANY_TICKER_MAP, Named)
        extracted == [i \in 1..Len(named) |-> named[i].ticker]
    IN SortIds(Dedup(declared \o extracted))

\* raw.excerpt || ''
ExcerptOrEmpty(raw) == IF "excerpt" \in DOMAIN raw THEN raw.excerpt ELSE <<>>

RECURSIVE classifyLoop(_, _)
\* the for loop of classifyEventType from entry i on
classifyLoop(text, i) ==
    IF i > Len(EVENT_TYPE_KEYWORDS) THEN "other"
    ELSE LET entry == EVENT_TYPE_KEYWORDS[i]
         IN IF \E k \in 1..Len(entry.keywords) :
                   Includes(text, toLowerCaseText(entry.keywords[k]))
            THEN entry.eventType
            ELSE classifyLoop(text, i + 1)

RECURSIVE classifyLoopLast(_, _, _)
\* keeps scanning after a match, so the last matching entry wins
classifyLoopLast(text, i, found) ==
    IF i > Len(EVENT_TYPE_KEYWORDS) THEN found
    ELSE LET entry == EVENT_TYPE_KEYWORDS[i]
         IN IF \E k \in 1..Len(entry.keywords) :
                   Includes(text, toLowerCaseText(entry.keywords[k]))
            THEN classifyLoopLast(text, i + 1, entry.eventType)
            ELSE classifyLoopLast(text, i + 1, found)

classifyEventType_LastWins(title, excerpt) ==
    classifyLoopLast(toLowerCaseText(title \o <<32>> \o excerpt), 1, "other")

classifyEventType(title, excerpt) ==
    LET text == toLowerCaseText(title \o <<32>> \o excerpt)
    IN classifyLoop(text, 1)

getSourceDisplayName(sourceId) ==
    CASE sourceId = "EDINET" -> "EDINET"
      [] sourceId = "prtimes" -> "PR TIMES"
      [] sourceId = "company_ir" -> "Kaisha IR"
      [] OTHER -> sourceId

----------------------------------------------------------------------------
(* normalizeUrl: `new URL(url)`, searchParams.delete, hash and protocol
   setters and toString, for strings without a scheme or with the scheme http
   or https, without credentials, dot segments and non-ASCII characters *)

\* first position of s that holds a unit of `units`, Len(s) + 1 when there is none
IndexOfAny(s, units) ==
    IF \E i \in 1..Len(s) : s[i] \in units
    THEN CHOOSE i \in 1..Len(s) : s[i] \in units /\ \A j \in 1..(i - 1) : s[j] \notin units
    ELSE Len(s) + 1

RECURSIVE SplitOn(_, _)
\* String.prototype.split on one separator unit
SplitOn(s, sep) ==
    LET i == IndexOfAny(s, {sep})
    IN IF i > Len(s) THEN <<s>>
       ELSE <<SubSeq(s, 1, i - 1)>> \o SplitOn(SubSeq(s, i + 1, Len(s)), sep)

RECURSIVE JoinWith(_, _)
JoinWith(parts, sep) ==
    IF parts = <<>> THEN <<>>
    ELSE IF Len(parts) = 1 THEN parts[1]
    ELSE parts[1] \o <<sep>> \o JoinWith(Tail(parts), sep)

IsAlpha(c) == c \in 65..90 \/ c \in 97..122

HexValue(c) ==
    IF c \in 48..57 THEN c - 48
    ELSE IF c \in 65..70 THEN c - 55
    ELSE IF c \in 97..102 THEN c - 87
    ELSE -1

HexDigit(n) == IF n < 10 THEN 48 + n ELSE 55 + n

\* %XX of a byte, upper-case hex
PercentEncodeByte(c) == <<37, HexDigit(c \div 16), HexDigit(c % 16)>>

RECURSIVE PercentDecode(_)
PercentDecode(s) ==
    IF s = <<>> THEN <<>>
    ELSE IF Head(s) = 37 /\ Len(s) >= 3 /\ HexValue(s[2]) >= 0 /\ HexValue(s[3]) >= 0
         THEN <<16 * HexValue(s[2]) + HexValue(s[3])>> \o PercentDecode(SubSeq(s, 4, Len(s)))
         ELSE <<Head(s)>> \o PercentDecode(Tail(s))

\* the query state of the URL parser: percent-encodes the special-query set
QueryStateEncode(s) ==
    Flatten([i \in 1..Len(s) |->
                IF s[i] \in {32, 34, 35, 39, 60, 62} THEN PercentEncodeByte(s[i]) ELSE <<s[i]>>])

\* application/x-www-form-urlencoded parsing of a query into [name, value] pairs
UrlencodedParse(query) ==
    LET IsNonEmpty(p) == p # <<>>
        pieces == SelectSeq(SplitOn(query, 38), IsNonEmpty)
        PlusToSpace(s) == [i \in 1..Len(s) |-> IF s[i] = 43 THEN 32 ELSE s[i]]
        Pair(p) ==
            LET eq == IndexOfAny(p, {61})
            IN [name |-> PercentDecode(PlusToSpace(SubSeq(p, 1, eq - 1))),
                value |-> PercentDecode(PlusToSpace(SubSeq(p, eq + 1, Len(p))))]
    IN [i \in 1..Len(pieces) |-> Pair(pieces[i])]

\* application/x-www-form-urlencoded byte serialization of a name or value
UrlencodedEncode(s) ==
    Flatten([i \in 1..Len(s) |->
                IF IsAlpha(s[i]) \/ IsDigit(s[i]) \/ s[i] \in {42, 45, 46, 95} THEN <<s[i]>>
                ELSE IF s[i] = 32 THEN <<43>>
                ELSE PercentEncodeByte(s[i])])

UrlencodedSerialize(list) ==
    JoinWith([i \in 1..Len(list) |->
                 UrlencodedEncode(list[i].name) \o <<61>> \o UrlencodedEncode(list[i].value)], 38)

SchemeHttp == <<104, 116, 116, 112>>
SchemeHttps == <<104, 116, 116, 112, 115>>

DefaultPort(scheme) == IF scheme = SchemeHttp THEN 80 ELSE 443

\* a URL record that failed to parse (`new URL` throws)
ParseFailure ==
    [ok |-> FALSE, scheme |-> <<>>, host |-> <<>>, hasPort |-> FALSE, port |-> 0,
     path |-> <<>>, hasQuery |-> FALSE, query |-> <<>>, hasFragment |-> FALSE,
     fragment |-> <<>>]

\* query state and fragment state: `rest` is empty or starts with ? or #
QueryState(u, rest) ==
    LET hasQuery == rest # <<>> /\ rest[1] = 63
        queryEnd == IndexOfAny(rest, {35})
        fromFragment == IF hasQuery THEN SubSeq(rest, queryEnd, Len(rest)) ELSE rest
    IN [u EXCEPT !.hasQuery = hasQuery,
                 !.query = IF hasQuery THEN QueryStateEncode(SubSeq(rest, 2, queryEnd - 1))
                           ELSE <<>>,
                 !.hasFragment = (fromFragment # <<>>),
                 !.fragment = IF fromFragment # <<>>
                              THEN SubSeq(fromFragment, 2, Len(fromFragment)) ELSE <<>>]

\* host, port and path states: the host and port are validated, a default port
\* is dropped, \ in the path is read as /
PathState(scheme, hostText, portText, fromPath) ==
    LET hostOk == /\ hostText # <<>>
                  /\ \A i \in 1..Len(hostText) :
                        hostText[i] \notin {32, 35, 37, 47, 58, 60, 62, 63, 64, 91, 92, 93, 94, 124}
        portOk == /\ \A i \in 1..Len(portText) : IsDigit(portText[i])
                  /\ Len(portText) <= 5
                  /\ parseInt(portText) <= 65535
        hasPort == portText # <<>> /\ parseInt(portText) # DefaultPort(scheme)
        pathEnd == IndexOfAny(fromPath, {63, 35})
        pathText == [i \in 1..(pathEnd - 1) |-> IF fromPath[i] = 92 THEN 47 ELSE fromPath[i]]
    IN IF ~(hostOk /\ portOk) THEN ParseFailure
       ELSE QueryState([ok |-> TRUE,
                        scheme |-> scheme,
                        host |-> toLowerCaseText(hostText),
                        hasPort |-> hasPort,
                        port |-> IF hasPort THEN parseInt(portText) ELSE 0,
                        path |-> IF pathEnd = 1 THEN <<47>> ELSE pathText,
                        hasQuery |-> FALSE,
                        query |-> <<>>,
                        hasFragment |-> FALSE,
                        fragment |-> <<>>],
                       SubSeq(fromPath, pathEnd, Len(fromPath)))

\* authority state: the authority ends at the first /, \, ? or #; a colon
\* separates the host from the port
AuthorityState(scheme, fromAuthority) ==
    LET authorityEnd == IndexOfAny(fromAuthority, {47, 92, 63, 35})
        portColon == IndexOfAny(SubSeq(fromAuthority, 1, authorityEnd - 1), {58})
    IN PathState(scheme,
                 SubSeq(fromAuthority, 1, portColon - 1),
                 SubSeq(fromAuthority, portColon + 1, authorityEnd - 1),
                 SubSeq(fromAuthority, authorityEnd, Len(fromAuthority)))

\* special authority (ignore) slashes states: skip every leading / and \
SpecialAuthoritySlashesState(scheme, afterScheme) ==
    LET slashEnd == IndexOfAny(afterScheme, {c \in Range(afterScheme) : c \notin {47, 92}})
    IN AuthorityState(scheme, SubSeq(afterScheme, slashEnd, Len(afterScheme)))

\* scheme start state and scheme state: without a scheme the parse fails
\* (there is no base URL)
SchemeState(s) ==
    LET colon == IndexOfAny(s, {58})
        schemeOk == /\ colon <= Len(s)
                    /\ colon > 1
                    /\ IsAlpha(s[1])
                    /\ \A i \in 1..(colon - 1) :
                          IsAlpha(s[i]) \/ IsDigit(s[i]) \/ s[i] \in {43, 45, 46}
        scheme == toLowerCaseText(SubSeq(s, 1, colon - 1))
    IN IF ~schemeOk THEN ParseFailure
       ELSE CASE scheme \in {SchemeHttp, SchemeHttps} ->
               SpecialAuthoritySlashesState(scheme, SubSeq(s, colon + 1, Len(s)))

\* leading and trailing C0 control or space removed
StripControlOrSpace(input) ==
    LET first == IndexOfAny(input, {c \in Range(input) : c > 32})
        last == IF first > Len(input) THEN 0
                ELSE CHOOSE i \in 1..Len(input) :
                        input[i] > 32 /\ \A j \in (i + 1)..Len(input) : input[j] <= 32
    IN SubSeq(input, first, last)

\* the basic URL parser without a base URL
ParseURL(input) == SchemeState(StripControlOrSpace(input))

\* URL.prototype.toString: the URL serializer
SerializeURL(u) ==
    u.scheme \o <<58, 47, 47>> \o u.host
        \o (IF u.hasPort THEN <<58>> \o ToDigits(u.port, 10) ELSE <<>>)
        \o u.path
        \o (IF u.hasQuery THEN <<63>> \o u.query ELSE <<>>)
        \o (IF u.hasFragment THEN <<35>> \o u.fragment ELSE <<>>)

\* searchParams.delete(param) for each param, followed by the update steps
\* that write the serialized list back into the URL's query
DeleteSearchParams(u, params) ==
    LET list == IF u.hasQuery THEN UrlencodedParse(u.query) ELSE <<>>
        IsKept(pair) == pair.name \notin params
        serialized == UrlencodedSerialize(SelectSeq(list, IsKept))
    IN [u EXCEPT !.hasQuery = (serialized # <<>>), !.query = serialized]

\* parsed.hash = ''
ClearHash(u) == [u EXCEPT !.hasFragment = FALSE, !.fragment = <<>>]

\* parsed.protocol = 'https:' (drops a port that is the default of the new scheme)
SetProtocolHttps(u) ==
    [u EXCEPT !.scheme = SchemeHttps,
              !.hasPort = u.hasPort /\ u.port # DefaultPort(SchemeHttps),
              !.port = IF u.hasPort /\ u.port # DefaultPort(SchemeHttps) THEN u.port ELSE 0]

TrackingParams == {<<117, 116, 109, 95, 115, 111, 117, 114, 99, 101>>, <<117, 116, 109, 95, 109, 101, 100, 105, 117, 109>>, <<117, 116, 109, 95, 99, 97, 109, 112, 97, 105, 103, 110>>, <<114, 101, 102>>}

\* if (parsed.protocol === 'http:') parsed.protocol = 'https:'
StandardizeProtocol(u) == IF u.scheme = SchemeHttp THEN SetProtocolHttps(u) ELSE u

\* normalizeUrl that forgets the parameter ref
normalizeUrl_KeepRef(url) ==
    LET parsed == ParseURL(url)
    IN IF ~parsed.ok THEN url
       ELSE SerializeURL(StandardizeProtocol(ClearHash(
                DeleteSearchParams(parsed, TrackingParams \ {<<114, 101, 102>>}))))

normalizeUrl(url) ==
    LET parsed == ParseURL(url)
    IN IF ~parsed.ok THEN url
       ELSE SerializeURL(StandardizeProtocol(ClearHash(
                DeleteSearchParams(parsed, TrackingParams))))

----------------------------------------------------------------------------
(* URL runs: normalizeUrl on a string, and once more on its result *)

MaxParams == 2

\* scheme and host as written in the input
UrlOrigins ==
    {<<104, 116, 116, 112, 58, 47, 47, 97, 46, 106, 112>>,     \* 'http://a.jp'
     <<104, 116, 116, 112, 115, 58, 47, 47, 97, 46, 106, 112>>,    \* 'https://a.jp'
     <<72, 84, 84, 80, 58, 47, 47, 65, 46, 106, 112>>}     \* 'HTTP://A.jp'

UrlPorts == {<<>>, <<58, 56, 48>>, <<58, 52, 52, 51>>, <<58, 56, 48, 56, 48>>}  \* none, ':80', ':443', ':8080'

UrlPaths == {<<>>, <<47, 110, 47, 49>>}  \* none, '/n/1'

\* 'utm_source=x', 'utm_campaign', 'ref=1', 'id=7', 'q=a b', 'q=a%20b+c', '',
\* 'utm%5Fmedium=y'
UrlParams ==
    {<<117, 116, 109, 95, 115, 111, 117, 114, 99, 101, 61, 120>>,
     <<117, 116, 109, 95, 99, 97, 109, 112, 97, 105, 103, 110>>,
     <<114, 101, 102, 61, 49>>,
     <<105, 100, 61, 55>>,
     <<113, 61, 97, 32, 98>>,
     <<113, 61, 97, 37, 50, 48, 98, 43, 99>>,
     <<>>,
     <<117, 116, 109, 37, 53, 70, 109, 101, 100, 105, 117, 109, 61, 121>>}

UrlQueries ==
    {<<>>} \cup {<<63>> \o JoinWith(params, 38) :
                    params \in UNION {[1..n -> UrlParams] : n \in 0..MaxParams}}

UrlFragments == {<<>>, <<35>>, <<35, 116, 111, 112>>}  \* none, '#', '#top'

\* '', 'not a url', 'a.jp/n/1?ref=1', '//a.jp/n#top', 'http://', 'http://a.jp:x/',
\* 'http://a b/', and a URL between spaces: ' http://a.jp/?ref=1#x '
UrlOddities ==
    {<<>>,
     <<110, 111, 116, 32, 97, 32, 117, 114, 108>>,
     <<97, 46, 106, 112, 47, 110, 47, 49, 63, 114, 101, 102, 61, 49>>,
     <<47, 47, 97, 46, 106, 112, 47, 110, 35, 116, 111, 112>>,
     <<104, 116, 116, 112, 58, 47, 47>>,
     <<104, 116, 116, 112, 58, 47, 47, 97, 46, 106, 112, 58, 120, 47>>,
     <<104, 116, 116, 112, 58, 47, 47, 97, 32, 98, 47>>,
     <<32, 104, 116, 116, 112, 58, 47, 47, 97, 46, 106, 112, 47, 63, 114, 101, 102, 61, 49, 35, 120, 32>>}

Urls ==
    {origin \o port \o path \o query \o fragment :
        origin \in UrlOrigins, port \in UrlPorts, path \in UrlPaths,
        query \in UrlQueries, fragment \in UrlFragments}
    \cup UrlOddities

\* the string (not a URL) that stands for "not computed yet"
NotComputed == <<0>>

InitUrl ==
    /\ PipelineIdle
    /\ personalized = <<>>
    /\ ranked = <<>>
    /\ pc = "init"
    /\ rankingConfig = <<>>
    /\ referenceDate = 0
    /\ recencyCall = <<>>
    /\ similarityCall = <<>>
    /\ urlCall \in [url : Urls, once : {NotComputed}, twice : {NotComputed}]
    /\ rawEvents = <<>>
    /\ normalized = <<>>
    /\ sentNotifications = {}
    /\ scheduled = <<>>
    /\ calls = <<>>

NormalizeUrl ==
    /\ pc = "init"
    /\ urlCall' = [urlCall EXCEPT !.once = normalizeUrl(urlCall.url)]
    /\ pc' = "normalizeUrl"
    /\ UNCHANGED pipelineVars
    /\ UNCHANGED <<rankingConfig, referenceDate, recencyCall, similarityCall, rawEvents,
                   normalized, sentNotifications, scheduled, calls>>

NormalizeUrlAgain ==
    /\ pc = "normalizeUrl"
    /\ urlCall' = [urlCall EXCEPT !.twice = normalizeUrl(urlCall.once)]
    /\ pc' = "normalizeUrlAgain"
    /\ UNCHANGED pipelineVars
    /\ UNCHANGED <<rankingConfig, referenceDate, recencyCall, similarityCall, rawEvents,
                   normalized, sentNotifications, scheduled, calls>>

NextUrl == NormalizeUrl \/ NormalizeUrlAgain

SpecUrl == InitUrl /\ [][NextUrl]_vars

\* the names of the query parameters of a URL string
ParamNames(url) ==
    LET u == ParseURL(url)
    IN IF u.ok /\ u.hasQuery
       THEN {pair.name : pair \in Range(UrlencodedParse(u.query))}
       ELSE {}

\* C17: normalizeUrl(normalizeUrl(u)) = normalizeUrl(u) for every string u; a
\* parseable URL comes out without the parameters utm_source, utm_medium,
\* utm_campaign and ref, without a fragment and with the scheme https instead
\* of http; a string that does not parse comes out unchanged.
C17_UrlIdempotent ==
    /\ pc = "normalizeUrlAgain" => urlCall.twice = urlCall.once
    /\ pc \in {"normalizeUrl", "normalizeUrlAgain"} =>
          IF ParseURL(urlCall.url).ok
          THEN /\ ParamNames(urlCall.once) \cap TrackingParams = {}
               /\ 35 \notin Range(urlCall.once)
               /\ ParseURL(urlCall.once).ok
               /\ ParseURL(urlCall.once).scheme = SchemeHttps
          ELSE urlCall.once = urlCall.url

\* an http URL on port 443 with a percent-encoded tracking parameter, another
\* parameter and a fragment was normalized twice; the first pass changed it
C17_Witness ==
    /\ pc = "normalizeUrlAgain"
    /\ ParseURL(urlCall.url).scheme = SchemeHttp
    /\ ParseURL(urlCall.url).hasPort /\ ParseURL(urlCall.url).port = 443
    /\ 37 \in Range(urlCall.url)
    /\ 35 \in Range(urlCall.url)
    /\ ParamNames(urlCall.once) # {}
    /\ urlCall.once # urlCall.url
    /\ urlCall.twice = urlCall.once

----------------------------------------------------------------------------
(* Normalizer runs: normalizeEvents on a batch of raw records *)

MaxRawEvents == 2

\* declared codes: '7203', ' 7203 ', '72-03', '72030', '9999', '1000', '0720',
\* '999', 'abcd', full-width '7203' and ''
DeclaredCodes ==
    {<<55, 50, 48, 51>>,
     <<32, 55, 50, 48, 51, 32>>,
     <<55, 50, 45, 48, 51>>,
     <<55, 50, 48, 51, 48>>,
     <<57, 57, 57, 57>>,
     <<49, 48, 48, 48>>,
     <<48, 55, 50, 48>>,
     <<57, 57, 57>>,
     <<97, 98, 99, 100>>,
     <<65303, 65298, 65296, 65299>>,
     <<>>}

\* no code, one code, and pairs out of order, duplicated after cleaning, and mixed
DeclaredCodeLists ==
    {<<>>} \cup {<<c>> : c \in DeclaredCodes}
        \cup {<<<<57, 57, 57, 57>>, <<49, 48, 48, 48>>>>, <<<<55, 50, 48, 51>>, <<32, 55, 50, 48, 51, 32>>>>, <<<<57, 57, 57, 57>>, <<48, 55, 50, 48>>>>}

TitlePlain == <<84, 101, 115, 116, 32, 69, 118, 101, 110, 116>>  \* 'Test Event'
TitleToyotaNews == <<32, 32, 84, 79, 89, 79, 84, 65, 32, 9, 10, 32, 110, 101, 119, 115, 32>>  \* '  TOYOTA  news ' with a tab and a line break inside

\* titles with keywords of several categories, of one category and of none
ClassTitles ==
    {<<26989, 32318, 20104, 24819, 12398, 19978, 26041, 20462, 27491, 12395, 38306, 12377, 12427, 12362, 30693, 12425, 12379>>,
     <<36039, 26412, 25552, 25658>>,
     <<27770, 31639, 12392, 36890, 26399, 20104, 24819>>,
     <<26032, 35069, 21697, 12398, 21463, 27880>>,
     <<12522, 12467, 12540, 12523, 20107, 25925, 12391, 34892, 25919, 20966, 20998>>,
     <<77, 105, 115, 99, 101, 108, 108, 97, 110, 101, 111, 117, 115, 32, 97, 110, 110, 111, 117, 110, 99, 101, 109, 101, 110, 116>>}

UrlPlain == <<104, 116, 116, 112, 115, 58, 47, 47, 97, 46, 106, 112, 47, 110, 47, 49>>  \* 'https://a.jp/n/1'
UrlTracked == <<104, 116, 116, 112, 58, 47, 47, 97, 46, 106, 112, 47, 110, 47, 49, 63, 114, 101, 102, 61, 49, 35, 116, 111, 112>>  \* 'http://a.jp/n/1?ref=1#top'
UrlBroken == <<110, 111, 116, 32, 97, 32, 117, 114, 108>>  \* 'not a url'

ExcerptOrder == <<21463, 27880>>  \* the keyword of the category order-win
ExcerptUpward == <<19978, 26041, 20462, 27491>>  \* the keyword of the category upward-revision

RawBase ==
    [source |-> "EDINET", tier |-> "A", title |-> TitlePlain, url |-> UrlPlain,
     publishedAt |-> 20, fetchedAt |-> 25, tickerCodes |-> <<<<55, 50, 48, 51>>>>]

\* code lists that are also declared by a record whose title names a company
NamedCodeLists == {<<>>, <<<<55, 50, 48, 51>>>>, <<<<97, 98, 99, 100>>>>, <<<<57, 57, 57, 57>>, <<48, 55, 50, 48>>>>}

TitleMisc == <<77, 105, 115, 99, 101, 108, 108, 97, 110, 101, 111, 117, 115, 32, 97, 110, 110, 111, 117, 110, 99, 101, 109, 101, 110, 116>>  \* 'Miscellaneous announcement'
TitleProductOrder == <<26032, 35069, 21697, 12398, 21463, 27880>>  \* keywords of new-product and of order-win

ExcerptToyota == <<84, 79, 89, 79, 84, 65, 32, 114, 101, 99, 97, 108, 108>>  \* 'TOYOTA recall'

\* raw records without id: one slice per field that the normalizer treats
RawPool ==
    {[RawBase EXCEPT !.tickerCodes = codes] : codes \in DeclaredCodeLists}
    \cup {[RawBase EXCEPT !.tickerCodes = codes, !.title = TitleToyotaNews] :
             codes \in NamedCodeLists}
    \cup {[RawBase EXCEPT !.title = title] : title \in ClassTitles}
    \cup {[RawBase EXCEPT !.title = title] @@ [excerpt |-> excerpt] :
             title \in {TitleMisc, TitleProductOrder},
             excerpt \in {ExcerptOrder, ExcerptUpward}}
    \cup {[RawBase EXCEPT !.tickerCodes = <<<<57, 57, 57, 57>>>>] @@ [excerpt |-> ExcerptToyota]}
    \cup {[RawBase EXCEPT !.url = UrlBroken, !.tier = "B", !.source = "prtimes",
                          !.tickerCodes = <<>>],
          [RawBase EXCEPT !.url = UrlTracked, !.tier = "C", !.source = "news"],
          [RawBase EXCEPT !.url = UrlBroken, !.tier = "B", !.source = "company_ir",
                          !.tickerCodes = <<<<97, 98, 99, 100>>>>]}

MkRawEvents(attrs) == [i \in 1..Len(attrs) |-> [id |-> IdAt(i)] @@ attrs[i]]

RawEventsOver(pool, maxLen) ==
    {MkRawEvents(attrs) : attrs \in UNION {[1..n -> pool] : n \in 0..maxLen}}

normalizeEvent(raw) ==
    [id |-> raw.id,
     tier |-> raw.tier,
     title |-> normalizeTitle(raw.title),
     url |-> normalizeUrl(raw.url),
     publishedAt |-> raw.publishedAt,
     fetchedAt |-> raw.fetchedAt,
     tickerCodes |-> resolveTickerCodes(raw.tickerCodes, raw.title),
     eventType |-> classifyEventType(raw.title, ExcerptOrEmpty(raw)),
     sourceName |-> getSourceDisplayName(raw.source)]
    @@ (IF "excerpt" \in DOMAIN raw THEN [excerpt |-> raw.excerpt] ELSE <<>>)

\* leaves out the records that resolve to no ticker
normalizeEvents_DropUnresolved(raws) ==
    LET HasTicker(e) == e.tickerCodes # <<>>
    IN SelectSeq([i \in 1..Len(raws) |-> normalizeEvent(raws[i])], HasTicker)

normalizeEvents(raws) == [i \in 1..Len(raws) |-> normalizeEvent(raws[i])]

InitNormalize ==
    /\ PipelineIdle
    /\ personalized = <<>>
    /\ ranked = <<>>
    /\ pc = "init"
    /\ rankingConfig = <<>>
    /\ referenceDate = 0
    /\ recencyCall = <<>>
    /\ similarityCall = <<>>
    /\ urlCall = <<>>
    /\ rawEvents \in RawEventsOver(RawPool, MaxRawEvents)
    /\ normalized = <<>>
    /\ sentNotifications = {}
    /\ scheduled = <<>>
    /\ calls = <<>>

NormalizeEvents ==
    /\ pc = "init"
    /\ normalized' = normalizeEvents(rawEvents)
    /\ pc' = "normalizeEvents"
    /\ UNCHANGED pipelineVars
    /\ UNCHANGED <<rankingConfig, referenceDate, recencyCall, similarityCall, urlCall,
                   rawEvents, sentNotifications, scheduled, calls>>

NextNormalize == NormalizeEvents

SpecNormalize == InitNormalize /\ [][NextNormalize]_vars

----------------------------------------------------------------------------
(* Properties of the normalizer *)

\* a declared code after stripping non-digits and truncating to 4 characters
CleanedCode(code) ==
    LET digits == SelectSeq(code, IsDigit)
    IN SubSeq(digits, 1, Min2(4, Len(digits)))

\* exactly 4 decimal digits with a value in 1000..9999
IsValidTicker(c) ==
    /\ Len(c) = 4
    /\ \A i \in 1..Len(c) : c[i] \in 48..57
    /\ parseInt(c) >= 1000 /\ parseInt(c) <= 9999

\* C16: every code in the tickerCodes of a normalized event has exactly 4
\* decimal digits and a value in 1000..9999; a declared code that does not
\* validate after stripping non-digits and truncating to 4 characters is
\* dropped, not passed through; the list has no duplicates and is ascending.
C16_TickersValid ==
    pc = "normalizeEvents" =>
        \A i \in 1..Len(normalized) :
            LET codes == normalized[i].tickerCodes
                declared == rawEvents[i].tickerCodes
            IN /\ \A k \in 1..Len(codes) : IsValidTicker(codes[k])
               /\ \A k \in 1..Len(declared) :
                     ~IsValidTicker(CleanedCode(declared[k])) =>
                        /\ ~Contains(codes, declared[k])
                        /\ ~Contains(codes, CleanedCode(declared[k]))
               /\ \A k, m \in 1..Len(codes) :
                     k < m => parseInt(codes[k]) < parseInt(codes[m])

\* a record that declares '9999' and the invalid '0720' and names a mapped
\* company in its title came out with the codes 7203, 9999
C16_Witness ==
    /\ pc = "normalizeEvents"
    /\ \E i \in 1..Len(normalized) :
          /\ Len(rawEvents[i].tickerCodes) = 2
          /\ IsValidTicker(rawEvents[i].tickerCodes[1])
          /\ ~IsValidTicker(CleanedCode(rawEvents[i].tickerCodes[2]))
          /\ Len(normalized[i].tickerCodes) = 2
          /\ normalized[i].tickerCodes[2] = rawEvents[i].tickerCodes[1]

\* the title names a company of the lookup table
NamesCompany(title) ==
    \E k \in 1..Len(COMPANY_TICKER_MAP) : Includes(title, COMPANY_TICKER_MAP[k].company)

\* the record declares codes and none of them validates
TickersMalformed(raw) ==
    /\ raw.tickerCodes # <<>>
    /\ \A k \in 1..Len(raw.tickerCodes) : ~IsValidTicker(CleanedCode(raw.tickerCodes[k]))

\* no keyword of any category occurs in title plus excerpt
NoKeyword(raw) ==
    LET text == toLowerCaseText(raw.title \o <<32>> \o ExcerptOrEmpty(raw))
    IN \A c \in 1..Len(EVENT_TYPE_KEYWORDS) :
          \A k \in 1..Len(EVENT_TYPE_KEYWORDS[c].keywords) :
             ~Includes(text, toLowerCaseText(EVENT_TYPE_KEYWORDS[c].keywords[k]))

\* one normalized event per record, in input order, with the record's id and
\* tier, each the same as when its record is processed alone; an unparseable
\* URL stays unchanged and text without keyword gets the category other
BatchElementWise ==
    /\ Len(normalized) = Len(rawEvents)
    /\ \A i \in 1..Len(rawEvents) :
          /\ normalized[i].id = rawEvents[i].id
          /\ normalized[i].tier = rawEvents[i].tier
          /\ normalized[i] = normalizeEvents(<<rawEvents[i]>>)[1]
          /\ ~ParseURL(rawEvents[i].url).ok => normalized[i].url = rawEvents[i].url
          /\ NoKeyword(rawEvents[i]) => normalized[i].eventType = "other"

\* C18 as stated: normalizeEvents returns one normalized event per record, in
\* input order, with the same id and tier; a record with invalid ticker
\* strings degrades to an empty ticker list, an unparseable URL stays
\* unchanged, text without keyword gets the category other, and every record
\* is normalized as if processed alone.
C18_MalformedToEmptyTickers ==
    pc = "normalizeEvents" =>
        /\ BatchElementWise
        /\ \A i \in 1..Len(rawEvents) :
              TickersMalformed(rawEvents[i]) => normalized[i].tickerCodes = <<>>

\* C18 amended: as above, but a record with invalid ticker strings degrades
\* to the tickers of the companies named in its title, which is the empty
\* list when the title names no company of the lookup table.
C18_MalformedToTitleTickers ==
    pc = "normalizeEvents" =>
        /\ BatchElementWise
        /\ \A i \in 1..Len(rawEvents) :
              TickersMalformed(rawEvents[i]) =>
                 IF NamesCompany(rawEvents[i].title)
                 THEN Range(normalized[i].tickerCodes) =
                         {COMPANY_TICKER_MAP[k].ticker :
                             k \in {n \in 1..Len(COMPANY_TICKER_MAP) :
                                      Includes(rawEvents[i].title, COMPANY_TICKER_MAP[n].company)}}
                 ELSE normalized[i].tickerCodes = <<>>

\* a batch of a record with an invalid code, an unparseable URL and no keyword
\* and a well-formed record with a tracked http URL: the first came out with
\* no ticker, its URL unchanged and the category other, the second with its
\* ticker and a rewritten URL
C18_Witness ==
    /\ pc = "normalizeEvents"
    /\ Len(rawEvents) = 2
    /\ TickersMalformed(rawEvents[1])
    /\ ~ParseURL(rawEvents[1].url).ok
    /\ NoKeyword(rawEvents[1])
    /\ normalized[1].tickerCodes = <<>>
    /\ normalized[1].url = rawEvents[1].url
    /\ normalized[1].eventType = "other"
    /\ normalized[2].tickerCodes # <<>>
    /\ normalized[2].url # rawEvents[2].url

\* the order of the categories as the claim gives it
CategoryOrder ==
    <<"upward", "capital", "partnership", "incident", "regulation", "earnings",
      "guidance", "newProduct", "order">>

\* some keyword of the category occurs, case-insensitively, in the text
KeywordOccurs(category, text) ==
    \E c \in 1..Len(EVENT_TYPE_KEYWORDS) :
        /\ EVENT_TYPE_KEYWORDS[c].eventType = category
        /\ \E k \in 1..Len(EVENT_TYPE_KEYWORDS[c].keywords) :
              Includes(toLowerCaseText(text),
                       toLowerCaseText(EVENT_TYPE_KEYWORDS[c].keywords[k]))

MatchingCategories(raw) ==
    {n \in 1..Len(CategoryOrder) :
        KeywordOccurs(CategoryOrder[n], raw.title \o <<32>> \o ExcerptOrEmpty(raw))}

\* C19: the category of a normalized event is the first one, in the order
\* upward-revision, capital-policy, partnership, incident, regulation,
\* earnings, guidance, new-product, order-win, with a keyword occurring
\* case-insensitively in title plus excerpt, and other when there is none.
C19_FirstCategoryWins ==
    pc = "normalizeEvents" =>
        \A i \in 1..Len(normalized) :
            LET matches == MatchingCategories(rawEvents[i])
            IN IF matches = {}
               THEN normalized[i].eventType = "other"
               ELSE \E n \in matches :
                       /\ \A m \in matches : n <= m
                       /\ normalized[i].eventType = CategoryOrder[n]

\* keywords of new-product and order-win in the title and of upward-revision
\* in the excerpt: the category is upward-revision
C19_Witness ==
    /\ pc = "normalizeEvents"
    /\ \E i \in 1..Len(normalized) :
          /\ "excerpt" \in DOMAIN rawEvents[i]
          /\ Cardinality(MatchingCategories(rawEvents[i])) = 3
          /\ KeywordOccurs("upward", rawEvents[i].excerpt)
          /\ ~KeywordOccurs("upward", rawEvents[i].title)
          /\ normalized[i].eventType = "upward"

----------------------------------------------------------------------------
(* notificationService: calls of sendImmediateNotification and
   scheduleNotification.  A call runs from one await to the next without
   interruption; between two awaits of a call any other call may run. *)

MaxCalls == 2

IdempotencyKeys == {"key1", "key2"}

CallKinds == {"sendImmediateNotification", "scheduleNotification"}

\* checkIdempotency: sentNotifications.has(key)
checkIdempotency(sent, key) == key \in sent

\* markAsSent: sentNotifications.add(key)
markAsSent(sent, key) == sent \cup {key}

InitNotify ==
    /\ PipelineIdle
    /\ personalized = <<>>
    /\ ranked = <<>>
    /\ pc = "init"
    /\ rankingConfig = <<>>
    /\ referenceDate = 0
    /\ recencyCall = <<>>
    /\ similarityCall = <<>>
    /\ urlCall = <<>>
    /\ rawEvents = <<>>
    /\ normalized = <<>>
    /\ sentNotifications = {}
    /\ scheduled = <<>>
    /\ calls = <<>>

NotifyUnchanged ==
    /\ UNCHANGED pipelineVars
    /\ UNCHANGED <<rankingConfig, referenceDate, recencyCall, similarityCall, urlCall,
                   rawEvents, normalized>>

\* a caller invokes one of the two functions with a key: the function runs up
\* to `await checkIdempotency(key)`, whose body has already read the cache
BeginCall ==
    /\ Len(calls) < MaxCalls
    /\ \E kind \in CallKinds, key \in IdempotencyKeys :
          calls' = Append(calls, [kind |-> kind, key |-> key, at |-> "awaitCheck",
                                  alreadySent |-> checkIdempotency(sentNotifications, key)])
    /\ pc' = "beginCall"
    /\ UNCHANGED <<sentNotifications, scheduled>>
    /\ NotifyUnchanged

\* the call resumes after the check and finds the key in the cache: it returns
ReturnAlreadySent ==
    /\ \E c \in 1..Len(calls) :
          /\ calls[c].at = "awaitCheck"
          /\ calls[c].alreadySent
          /\ calls' = [calls EXCEPT ![c].at = "returned"]
    /\ pc' = "returnAlreadySent"
    /\ UNCHANGED <<sentNotifications, scheduled>>
    /\ NotifyUnchanged

\* the call resumes after the check with alreadySent false: it hands the
\* notification to Notifications.scheduleNotificationAsync and awaits it
HandToScheduler ==
    /\ \E c \in 1..Len(calls) :
          /\ calls[c].at = "awaitCheck"
          /\ ~calls[c].alreadySent
          /\ scheduled' = Append(scheduled, [key |-> calls[c].key, kind |-> calls[c].kind])
          /\ calls' = [calls EXCEPT ![c].at = "awaitSchedule"]
    /\ pc' = "handToScheduler"
    /\ UNCHANGED sentNotifications
    /\ NotifyUnchanged

\* the platform call resolves: the call runs markAsSent(key) and awaits it
MarkAsSent ==
    /\ \E c \in 1..Len(calls) :
          /\ calls[c].at = "awaitSchedule"
          /\ sentNotifications' = markAsSent(sentNotifications, calls[c].key)
          /\ calls' = [calls EXCEPT ![c].at = "awaitMark"]
    /\ pc' = "markAsSent"
    /\ UNCHANGED scheduled
    /\ NotifyUnchanged

\* the platform call rejects: the catch block logs and rethrows, nothing is marked
ThrowFromScheduler ==
    /\ \E c \in 1..Len(calls) :
          /\ calls[c].at = "awaitSchedule"
          /\ calls' = [calls EXCEPT ![c].at = "thrown"]
    /\ pc' = "throwFromScheduler"
    /\ UNCHANGED <<sentNotifications, scheduled>>
    /\ NotifyUnchanged

\* the call resumes after markAsSent, logs and returns
ReturnSent ==
    /\ \E c \in 1..Len(calls) :
          /\ calls[c].at = "awaitMark"
          /\ calls' = [calls EXCEPT ![c].at = "returned"]
    /\ pc' = "returnSent"
    /\ UNCHANGED <<sentNotifications, scheduled>>
    /\ NotifyUnchanged

NextNotify ==
    \/ BeginCall
    \/ ReturnAlreadySent
    \/ HandToScheduler
    \/ MarkAsSent
    \/ ThrowFromScheduler
    \/ ReturnSent

SpecNotify == InitNotify /\ [][NextNotify]_vars

\* C20: for each idempotency key at most one notification is ever handed to
\* the platform scheduler, across every sequence and interleaving of
\* sendImmediateNotification and scheduleNotification calls with that key.
C20_AtMostOncePerKey ==
    \A key \in IdempotencyKeys :
        Cardinality({i \in 1..Len(scheduled) : scheduled[i].key = key}) <= 1

----------------------------------------------------------------------------
(* Further properties of the clusterer *)

\* the earliest publish time among the members of a cluster
EarliestOf(c) ==
    CHOOSE t \in {e.publishedAt : e \in Members(c)} :
        \A e \in Members(c) : t <= e.publishedAt

\* C21: the publishedAt of every cluster built by the clusterer is the
\* earliest publish time among the cluster's members.
C21_PublishedAtIsEarliest ==
    \A c \in Built : c.publishedAt = EarliestOf(c)

\* the number of member positions, over all clusters of cs, that hold event e
TimesClustered(cs, e) ==
    Cardinality({p \in UNION {{<<k, j>> : j \in 1..Len(cs[k].events)} : k \in 1..Len(cs)} :
                    cs[p[1]].events[p[2]] = e})

\* C22: on a batch with pairwise distinct ids the clusters returned by
\* clusterEvents partition the batch: every input event is a member of exactly
\* one cluster, no cluster is empty, no cluster holds an event that was not in
\* the input, and an empty batch yields an empty result.
C22_ClustersPartitionBatch ==
    pc \in {"clustered", "cooled"} =>
        /\ \A i \in 1..Len(batch) : TimesClustered(clusters, batch[i]) = 1
        /\ \A k \in 1..Len(clusters) :
              /\ Len(clusters[k].events) > 0
              /\ Members(clusters[k]) \subseteq Range(batch)
        /\ batch = <<>> => clusters = <<>>

\* three events of one ticker and title at 0, 20 and 40 minutes: the newest
\* took the middle one, the oldest was left to a cluster of its own
C22_Witness ==
    /\ pc = "clustered"
    /\ Len(batch) = 3
    /\ \A i \in 1..3 : batch[i].title = TitleToyota
    /\ {batch[i].publishedAt : i \in 1..3} = Times
    /\ Len(clusters) = 2
    /\ Len(clusters[1].events) = 2
    /\ Len(clusters[2].events) = 1

----------------------------------------------------------------------------
(* Chain runs: clusterEvents, then applyCooldown, on batches whose titles are
   similar in a chain: 'xabcd' ~ 'abcd' ~ 'abcdy' (3 of 4 bigrams in common)
   but 'xabcd' and 'abcdy' are not (3 of 5) *)

MaxChainEvents == 3

TitleMiddle == <<97, 98, 99, 100>>          \* 'abcd'
TitleLeft   == <<120, 97, 98, 99, 100>>     \* 'xabcd'
TitleRight  == <<97, 98, 99, 100, 121>>     \* 'abcdy'

ChainTimes == {0, 15, 30, 50}

\* tier-B events of one ticker with every title at every time, and tier-A
\* events of another category with no ticker, another ticker and both tickers
ChainPool ==
    [tier : {"B"}, publishedAt : ChainTimes, title : {TitleLeft, TitleMiddle, TitleRight},
     tickerCodes : {<<T7203>>}, eventType : {"upward"}]
    \cup [tier : {"A"}, publishedAt : {15}, title : {TitleMiddle},
          tickerCodes : {<<>>, <<T6758>>, <<T6758, T7203>>}, eventType : {"order"}]

InitChain ==
    /\ batch \in BatchesOver(ChainPool, MaxChainEvents)
    /\ config = DEFAULT_CONFIG
    /\ clusters = <<>>
    /\ cooled = <<>>
    /\ cooldownArg = 0
    /\ profile = NoProfile
    /\ personalized = <<>>
    /\ unread = <<>>
    /\ ranked = <<>>
    /\ readEventIds = {}
    /\ pc = "init"
    /\ ServicesIdle

NextChain == ClusterEvents \/ ApplyCooldown

SpecChain == InitChain /\ [][NextChain]_vars

\* e1 and e2 pass every test of findSimilarEvents against each other
Linked(e1, e2) ==
    /\ Abs(getTime(e1.publishedAt) - getTime(e2.publishedAt))
          <= config.timeWindowMinutes * 60 * 1000
    /\ Range(e1.tickerCodes) \cap Range(e2.tickerCodes) # {}
    /\ SimilarityAtLeast(calculateSimilarity(e1.title, e2.title), config.similarityThreshold)

\* the batch is a chain of three: x - y - z, all sharing a ticker and within
\* the window of each other, x ~ y and y ~ z similar, x and z not
IsChain(x, y, z) ==
    /\ Len(batch) = 3
    /\ {x, y, z} = 1..3
    /\ Linked(batch[x], batch[y])
    /\ Linked(batch[y], batch[z])
    /\ \A i, j \in 1..3 :
          /\ Abs(getTime(batch[i].publishedAt) - getTime(batch[j].publishedAt))
                <= config.timeWindowMinutes * 60 * 1000
          /\ Range(batch[i].tickerCodes) \cap Range(batch[j].tickerCodes) # {}
    /\ ~SimilarityAtLeast(calculateSimilarity(batch[x].title, batch[z].title),
                          config.similarityThreshold)

\* the anchor of the first cluster: the first of the batch sorted newest first
FirstAnchor == SortNewestFirst(batch)[1]

\* C23: three events that share a ticker and lie within the window of each
\* other, A ~ B and B ~ C similar at the threshold but A and C not, are merged
\* into one cluster whichever of the three is the newest.
C23_ChainMergedWhoeverIsNewest ==
    pc = "clustered" =>
        \A x, y, z \in 1..3 : IsChain(x, y, z) => Len(clusters) = 1

\* C23 as the code has it: the three are merged into one cluster exactly when
\* the middle event B is the anchor; when A or C is the anchor, the anchor
\* takes B and the third event is left to a cluster of its own.
C23_ChainMergedWhenMiddleIsAnchor ==
    pc = "clustered" =>
        \A x, y, z \in 1..3 :
            IsChain(x, y, z) =>
                IF FirstAnchor = batch[y]
                THEN Len(clusters) = 1 /\ Len(clusters[1].events) = 3
                ELSE /\ Len(clusters) = 2
                     /\ Members(clusters[1]) = {FirstAnchor, batch[y]}
                     /\ Members(clusters[2]) = Range(batch) \ {FirstAnchor, batch[y]}

\* a chain whose newest event is an end of the chain was clustered in two
C23_Witness ==
    /\ pc = "clustered"
    /\ \E x, y, z \in 1..3 : IsChain(x, y, z) /\ FirstAnchor = batch[x]
    /\ Len(clusters) = 2

\* C24: in every cluster built by the clusterer the members are ordered by
\* tier (A before B before C) and, within one tier, by publish time
\* descending; the primary ticker is the first ticker of the first member
\* (empty when that member has none), and the title and the category are those
\* of the first member.
C24_MembersOrderedPrimaryFirst ==
    \A c \in Built :
        /\ \A i, j \in 1..Len(c.events) :
              i < j =>
                  \/ tierOrder(c.events[i].tier) < tierOrder(c.events[j].tier)
                  \/ /\ c.events[i].tier = c.events[j].tier
                     /\ c.events[i].publishedAt >= c.events[j].publishedAt
        /\ c.primaryTicker = IF c.events[1].tickerCodes = <<>> THEN <<>>
                             ELSE c.events[1].tickerCodes[1]
        /\ c.title = c.events[1].title
        /\ c.eventType = c.events[1].eventType

\* a cluster whose tier-A member is older than its tier-B member and has
\* another first ticker, category and title, next to a cluster of one event
\* without tickers
C24_Witness ==
    /\ pc = "clustered"
    /\ \E c \in Range(clusters) :
          /\ Len(c.events) = 2
          /\ c.events[1].tier = "A"
          /\ c.events[2].publishedAt > c.events[1].publishedAt
          /\ c.primaryTicker = T6758
          /\ c.eventType = "order"
          /\ c.title = TitleMiddle
          /\ c.events[2].title # TitleMiddle
    /\ \E c \in Range(clusters) : c.primaryTicker = <<>>

----------------------------------------------------------------------------
(* Stability of the ranker *)

\* the position of x in the sequence s of distinct elements
IndexIn(s, x) == CHOOSE i \in 1..Len(s) : s[i] = x

\* events of equal score are in `output` in the relative order of `input`
TiesKeepOrder(input, output, rcfg, ref) ==
    \A i, j \in 1..Len(input) :
        (i < j /\ calculateRankingScore(input[i], rcfg, ref)
                    = calculateRankingScore(input[j], rcfg, ref))
            => IndexIn(output, input[i]) < IndexIn(output, input[j])

\* C25: rankEvents is stable: two input events of equal composite score come
\* out in their relative input order, and ranking an already ranked list again
\* with the same config and reference time returns the same order.
C25_RankingStable ==
    [][/\ pc' = "rankEvents" =>
             TiesKeepOrder(personalized, ranked', rankingConfig, referenceDate)
       /\ pc' = "rankEventsAgain" => ranked' = ranked]_vars

\* a list of three was ranked twice: the first pass moved the first event
\* behind two events of equal score that kept their input order
C25_Witness ==
    /\ pc = "rankEventsAgain"
    /\ Len(personalized) = 3
    /\ ranked = <<personalized[2], personalized[3], personalized[1]>>
    /\ calculateRankingScore(personalized[2], rankingConfig, referenceDate)
          = calculateRankingScore(personalized[3], rankingConfig, referenceDate)
    /\ calculateRankingScore(personalized[3], rankingConfig, referenceDate)
          > calculateRankingScore(personalized[1], rankingConfig, referenceDate)
    /\ personalized[2].impact # personalized[3].impact

----------------------------------------------------------------------------
(* Company names in the title and in the excerpt *)

\* C26: ticker resolution scans the title and the excerpt of the raw record:
\* when a company name of the lookup table occurs in the title or in the
\* excerpt (also in the excerpt only), its ticker is among the normalized
\* event's tickerCodes, next to the validated declared codes.
C26_TitleAndExcerptScanned ==
    pc = "normalizeEvents" =>
        \A i \in 1..Len(rawEvents) :
            /\ \A k \in 1..Len(COMPANY_TICKER_MAP) :
                  (\/ Includes(rawEvents[i].title, COMPANY_TICKER_MAP[k].company)
                   \/ Includes(ExcerptOrEmpty(rawEvents[i]), COMPANY_TICKER_MAP[k].company))
                      => COMPANY_TICKER_MAP[k].ticker \in Range(normalized[i].tickerCodes)
            /\ \A c \in Range(rawEvents[i].tickerCodes) :
                  IsValidTicker(CleanedCode(c))
                      => CleanedCode(c) \in Range(normalized[i].tickerCodes)

----------------------------------------------------------------------------
(* Category preference weights *)

\* the weight the profile declares for the cluster's category, whatever its
\* value, and the weight of the default table when it declares none
DeclaredOrDefaultWeight(c, prof) ==
    IF c.eventType \in DOMAIN prof.eventTypeWeights
    THEN prof.eventTypeWeights[c.eventType]
    ELSE DEFAULT_EVENT_TYPE_WEIGHTS[c.eventType]

\* C27: the category weight used by calculateRelevanceScore and by
\* determinePersonalImpact is the profile's override for the cluster's
\* category whenever the profile declares one, whatever its value (0
\* included), and the default weight only when it declares none: a medium
\* cluster below relevance 85 becomes strong exactly when that weight is at
\* least 1.4, and the category is named among the score's reasons exactly
\* when |(weight - 1.0) x 15| exceeds 2.
C27_OverrideWhateverItsValue ==
    pc = "personalized" =>
        \A c \in Range(clusters) :
            LET weight == DeclaredOrDefaultWeight(c, profile)
                r == calculateRelevanceScore(c, profile)
            IN /\ ResolveTypeWeight(c, profile) = weight
               /\ \A score \in 0..84 :
                     c.impact = "medium" =>
                        (determinePersonalImpact(c, profile, score) = "strong"
                            <=> weight >= 14)
               /\ r.score > 0 =>
                     (Contains(r.reason, "eventType") <=> Abs((weight - 10) * 15) > 20)

----------------------------------------------------------------------------
(* The anchor of a cluster *)

\* member a dominates cluster c: every other member is no newer than a, at
\* most the window older, shares a ticker with a and has a similar title
Dominates(a, c) ==
    \A e \in Members(c) \ {a} :
        /\ e.publishedAt <= a.publishedAt
        /\ getTime(a.publishedAt) - getTime(e.publishedAt)
              <= config.timeWindowMinutes * 60 * 1000
        /\ Range(e.tickerCodes) \cap Range(a.tickerCodes) # {}
        /\ SimilarityAtLeast(calculateSimilarity(a.title, e.title),
                             config.similarityThreshold)

\* C28: in every cluster returned by clusterEvents a member with the latest
\* publish time dominates the cluster; hence no cluster spans more than
\* timeWindowMinutes, and an event without tickers is alone in its cluster.
C28_AnchorDominates ==
    \A c \in Range(clusters) :
        /\ \E a \in Members(c) : Dominates(a, c)
        /\ \A e1, e2 \in Members(c) :
              Abs(getTime(e1.publishedAt) - getTime(e2.publishedAt))
                  <= config.timeWindowMinutes * 60 * 1000
        /\ \A e \in Members(c) : e.tickerCodes = <<>> => Len(c.events) = 1

\* 'abcd' at 30 minutes anchored 'xabcd' and 'abcdy', published 15 and 30
\* minutes before it, which are not similar to each other
C28_Witness ==
    /\ pc = "clustered"
    /\ Len(clusters) = 1
    /\ \E a, e1, e2 \in Members(clusters[1]) :
          /\ a.publishedAt = 30 /\ e1.publishedAt = 15 /\ e2.publishedAt = 0
          /\ a.title = TitleMiddle
          /\ ~Linked(e1, e2)

----------------------------------------------------------------------------
(* Members across a cooldown pass *)

\* pairwise distinct cluster ids and pairwise disjoint member sets
DistinctAndDisjoint(cs) ==
    \A i, j \in 1..Len(cs) :
        i # j => /\ cs[i].clusterId # cs[j].clusterId
                 /\ Members(cs[i]) \cap Members(cs[j]) = {}

\* C29: applyCooldown on clusters with pairwise distinct ids and pairwise
\* disjoint member sets neither loses nor duplicates a member event: every
\* member of every input cluster is a member of exactly one output cluster,
\* the output holds no other event, and the input array and its clusters are
\* left as they were.
C29_CooldownKeepsMembers ==
    [][(pc' = "cooled" /\ DistinctAndDisjoint(clusters)) =>
          /\ \A e \in UNION {Members(c) : c \in Range(clusters)} :
                TimesClustered(cooled', e) = 1
          /\ \A c \in Range(cooled') :
                Members(c) \subseteq UNION {Members(d) : d \in Range(clusters)}
          /\ clusters' = clusters]_vars

\* of three single-member clusters of one theme the newest two were merged
\* and the oldest was passed through
C29_Witness ==
    /\ pc = "cooled"
    /\ Len(clusters) = 3
    /\ \A k \in 1..3 : Len(clusters[k].events) = 1
    /\ Len(cooled) = 2
    /\ Len(cooled[1].events) = 2
    /\ cooled[2] \in Range(clusters)

----------------------------------------------------------------------------
(* Order of the input array *)

\* the bijections of 1..n
PermutationsOf(n) == {f \in [1..n -> 1..n] : \A i, j \in 1..n : i # j => f[i] # f[j]}

Reorder(events, f) == [i \in 1..Len(events) |-> events[f[i]]]

DistinctTimes(events) ==
    \A i, j \in 1..Len(events) : i # j => events[i].publishedAt # events[j].publishedAt

\* C30: on a batch with pairwise distinct ids and publish times the result of
\* clusterEvents does not depend on the order of the input array: every
\* permutation of the batch yields the same clusters in the same order, with
\* the same members, cluster ids, primary tickers and impact levels.
C30_InputOrderIrrelevant ==
    (pc = "clustered" /\ DistinctTimes(batch)) =>
        \A f \in PermutationsOf(Len(batch)) :
            clusterEvents(Reorder(batch, f), config) = clusters

\* a chain of three at three times, given oldest first with the middle event
\* last, was clustered in two
C30_Witness ==
    /\ pc = "clustered"
    /\ Len(batch) = 3
    /\ batch[1].publishedAt < batch[3].publishedAt
    /\ batch[3].publishedAt < batch[2].publishedAt
    /\ \E x, z \in 1..2 : IsChain(x, 3, z)
    /\ Len(clusters) = 2

============================================================================
